---- MODULE Spec2Model ----
(***************************************************************************)
(* Model of hajimehoshi/sugoimaze: the room graph generator                *)
(* (internal/game/fielddata.go, the FieldData revision that starts at line *)
(* 1239: generateRooms / tryAddPathWithOneWay), the tile compiler          *)
(* (setTiles), the passability queries, and the GameScene handoff.         *)
(*                                                                         *)
(* Specifications:                                                         *)
(*   Spec       NewFieldData: the generateRooms retry loop, one action per *)
(*              accepted step of tryAddPathWithOneWay, then setTiles.      *)
(*   SceneSpec  GameScene.Update interleaved with the generation goroutine.*)
(*   FieldSpec  Field.Update on two levels NewFieldData returns.           *)
(*   LayerSpec  the generator on a FieldData with three z-layers and on    *)
(*              one with two w-layers.                                     *)
(*   CompileSpec  setTiles applied to graphs with freely drawn x-passages. *)
(*   BranchSpec the branch loop of generateRooms on the graph of one main  *)
(*              path of a FieldData of size (2,3,2,1).                     *)
(*   SceneFairSpec  SceneSpec under fair scheduling of ticks and goroutine.*)
(***************************************************************************)
EXTENDS Integers, Sequences, FiniteSets, TLC

VARIABLES
    size,          \* <<width, height, depth0, depth1>> of the FieldData
    pc,            \* position in NewFieldData / generateRooms
    rooms,         \* generateRooms' local variable rooms
    work,          \* tryAddPathWithOneWay's cloned rooms
    pos,           \* tryAddPathWithOneWay's x, y, z, w
    count,         \* tryAddPathWithOneWay's count
    oneWayExists,  \* tryAddPathWithOneWay's oneWayExists
    mainPath,      \* TRUE: the isGoal closure of the main path, FALSE: of a branch
    start,         \* generateRooms' startX, startY, startZ, startW
    startCount,    \* generateRooms' startCount
    failCount,     \* generateRooms' count (consecutive failed branches)
    ret,           \* result of the last generateRooms call: <<>> is nil, <<r>> is r
    before,        \* history: the graph handed to the running tryAddPathWithOneWay
    lastStep,      \* history: the last accepted step of tryAddPathWithOneWay
    tiles,         \* FieldData.tiles
    setTilesCalls, \* history: number of setTiles calls
    attempts,      \* history: number of generateRooms calls (saturating)
    field,         \* GameScene.field ("nil" or "F")
    fieldCh,       \* GameScene.fieldCh ("nil" or "ch")
    chClosed,      \* whether the channel made by Update is closed
    gpc,           \* position of the generation goroutine
    tpc,           \* position of the tick (GameScene.Update) in progress
    staleCh,       \* the goroutine's g.fieldCh = nil is not yet seen by the tick loop
    bgmStarted,    \* GameScene.bgmStarted
    sceneGoal,     \* g.field.IsGoalReached()
    started,       \* history: number of generation goroutines started
    tickLog,       \* history: what the last tick (GameScene.Update) has done
    fieldMade,     \* whether NewField has built the Field
    playerX,       \* Field.playerX
    playerY,       \* Field.playerY
    dx,            \* Field.dx
    dy,            \* Field.dy
    currentDepth,  \* Field.currentDepth: the active z-layer
    currentW,      \* the active w-layer of the Field
    goalReached,   \* Field.goalReached
    keys,          \* history: the keys the last Field.Update has acted on
    animTicks      \* history: Field.Update calls since the last accepted move

genVars == <<size, pc, rooms, work, pos, count, oneWayExists, mainPath, start,
             startCount, failCount, ret, before, lastStep, tiles, setTilesCalls,
             attempts>>
sceneVars == <<field, fieldCh, chClosed, gpc, tpc, staleCh, bgmStarted, sceneGoal,
              started, tickLog>>
fieldVars == <<fieldMade, playerX, playerY, dx, dy, currentDepth, currentW,
              goalReached, keys, animTicks>>
vars == <<genVars, sceneVars, fieldVars>>

(***************************************************************************)
(* Bounds.                                                                 *)
(***************************************************************************)
\* Sizes (width, height, depth0, depth1) explored.  The program's sizes are
\* 5x5x2x1 .. 14x14x2x2 (NewFieldData); depth0 is always 2 and depth1 is 1 or 2.
Sizes == {<<2, 2, 2, 1>>, <<1, 2, 2, 2>>}

\* Number of consecutive failed branches generateRooms tolerates.  The source
\* uses 1000 (count > 1000); the model scales it down.
MaxBranchFailures == 1

\* The history counter of generateRooms calls saturates here.
MaxAttempts == 2

\* The history counter of started generation goroutines saturates here.
MaxStarted == 2

\* Passability queries are examined up to Margin tiles outside the grid.
Margin == 2

(***************************************************************************)
(* Coordinate & passage model.                                             *)
(***************************************************************************)
passageWall == "Wall"
passagePassable == "Passable"
passageOneWayForward == "OneWayForward"
passageOneWayBackward == "OneWayBackward"

width == size[1]
height == size[2]
depth0 == size[3]
depth1 == size[4]

\* A coordinate is <<x, y, z, w>>.
Coords == (0..(width - 1)) \X (0..(height - 1)) \X (0..(depth0 - 1)) \X (0..(depth1 - 1))

startCoord == <<0, 0, 0, 0>>
goalCoord == <<width - 1, height - 1, depth0 - 1, depth1 - 1>>

room == [passageX |-> passageWall, passageY |-> passageWall,
         passageZ |-> passageWall, passageW |-> passageWall, pathCount |-> 0]

abs(n) == IF n < 0 THEN -n ELSE n

NoStep == [from |-> <<0, 0, 0, 0>>, to |-> <<0, 0, 0, 0>>, oneWay |-> FALSE,
           goalReached |-> FALSE, toCount |-> 0, kind |-> "none"]

(***************************************************************************)
(* Room Graph Generator: tryAddPathWithOneWay.                             *)
(***************************************************************************)
\* Mutant of isGoal: the branch predicate without the 5/4 factor.
isGoalNoFactor(main, st, stCount, c, rms) ==
    IF main
    THEN c = <<size[1] - 1, size[2] - 1, size[3] - 1, size[4] - 1>>
    ELSE /\ c # st
         /\ rms[c].pathCount # 0
         /\ ~(stCount <= rms[c].pathCount)

\* The isGoal closures generateRooms passes to tryAddPathWithOneWay:
\* main = TRUE is the closure of the main path, main = FALSE the closure of a
\* branch that started at st with pathCount stCount.
isGoal(main, st, stCount, c, rms) ==
    IF main
    THEN c = goalCoord
    ELSE /\ c # st
         /\ rms[c].pathCount # 0
         /\ ~(stCount <= (rms[c].pathCount * 5) \div 4)

\* The values d of rand.IntN(12 + (f.depth0 - 1) + (f.depth1 - 1)), one per
\* case of the direction switch (cases 0,1,2 / 3,4,5 / 6,7,8 / 9,10,11 run the
\* same code, so 0, 3, 6 and 9 stand for them).
Directions ==
    {d \in 0..(12 + (depth0 - 1) + (depth1 - 1) - 1) : d >= 12 \/ d % 3 = 0}

\* The bounds test of the direction switch: FALSE is its `continue'.
InBounds(c, d) ==
    CASE d \in 0..2 -> c[1] > 0
      [] d \in 3..5 -> c[1] < width - 1
      [] d \in 6..8 -> c[2] > 0
      [] d \in 9..11 -> c[2] < height - 1
      [] OTHER -> TRUE

\* nextX, nextY, nextZ, nextW after the direction switch.
NextCoord(c, d) ==
    CASE d \in 0..2 -> <<c[1] - 1, c[2], c[3], c[4]>>
      [] d \in 3..5 -> <<c[1] + 1, c[2], c[3], c[4]>>
      [] d \in 6..8 -> <<c[1], c[2] - 1, c[3], c[4]>>
      [] d \in 9..11 -> <<c[1], c[2] + 1, c[3], c[4]>>
      [] d = 12 -> <<c[1], c[2], (c[3] + 1) % depth0, c[4]>>
      [] d = 13 -> <<c[1], c[2], c[3], (c[4] + 1) % depth1>>
      [] OTHER -> c

\* The room whose passageY joins rows orig and next of a y-direction move.
YPassageRoom(orig, next, z) ==
    IF orig[2] < next[2] THEN <<orig[1], orig[2], z, orig[4]>>
                         ELSE <<next[1], next[2], z, orig[4]>>

\* The one-way state that opposes / follows a y-direction move.
Opposing(orig, next) ==
    IF orig[2] < next[2] THEN passageOneWayBackward ELSE passageOneWayForward
\* Mutant of Following: the one-way state against the move.
FollowingReversed(orig, next) ==
    IF orig[2] < next[2] THEN "OneWayBackward" ELSE "OneWayForward"

\* Mutant of Following: every one-way passage is made OneWayBackward.
FollowingBackward(orig, next) == "OneWayBackward"

Following(orig, next) ==
    IF orig[2] < next[2] THEN passageOneWayForward ELSE passageOneWayBackward

\* Mutant of Conflicted: the conflicted one-way passage is not looked for.
ConflictedNever(rms, orig, next) == FALSE

\* `continue retry': some z-layer holds a one-way passage against the move.
Conflicted(rms, orig, next) ==
    \E z \in 0..(depth0 - 1) :
        rms[YPassageRoom(orig, next, z)].passageY = Opposing(orig, next)

allWall(rms, orig, next) ==
    \A z \in 0..(depth0 - 1) :
        rms[YPassageRoom(orig, next, z)].passageY = passageWall

\* Mutant of allWallOrOneWay: a plain Passable sibling is not noticed.
allWallOrOneWayAlways(rms, orig, next) == TRUE

allWallOrOneWay(rms, orig, next) ==
    \A z \in 0..(depth0 - 1) :
        rms[YPassageRoom(orig, next, z)].passageY \in
            {passageWall, Following(orig, next)}

\* Mutant of visited: the pathCount of every layer other than the departed
\* one is looked at.
visitedAnyLayer(rms, orig, next) ==
    IF orig[3] # next[3]
    THEN \E z \in 0..(size[3] - 1) :
            z # orig[3] /\ rms[<<next[1], next[2], z, next[4]>>].pathCount # 0
    ELSE IF orig[4] # next[4]
    THEN \E w \in 0..(size[4] - 1) :
            w # orig[4] /\ rms[<<next[1], next[2], next[3], w>>].pathCount # 0
    ELSE rms[next].pathCount # 0

\* Mutant of visited: no room counts as visited.
visitedNever(rms, orig, next) == FALSE

\* The visited flag of one sample (the switch at "visited indicates ...").
visited(rms, orig, next) ==
    CASE orig[3] # next[3] ->
            \E z \in 0..(depth0 - 1) : z # orig[3] /\ rms[next].pathCount # 0
      [] orig[4] # next[4] ->
            \E w \in 0..(depth1 - 1) : w # orig[4] /\ rms[next].pathCount # 0
      [] OTHER -> rms[next].pathCount # 0

\* One pass of the `for range 100' body for direction d and for coin
\* (coin = (rand.IntN(5) = 0)): whether the sample ends the loop with
\* found = true, and then nextX.., oneWay and goalReached.
Sample(main, st, stCount, rms, c, d, coin) ==
    LET next == NextCoord(c, d)
        yMove == next[2] # c[2]
        ow == IF ~yMove THEN FALSE
              ELSE IF allWall(rms, c, next) THEN coin
              ELSE allWallOrOneWay(rms, c, next)
        goalNext == isGoal(main, st, stCount, next, rms)
    IN  IF ~InBounds(c, d)
        THEN [found |-> FALSE, next |-> c, oneWay |-> FALSE, goalReached |-> FALSE]
        ELSE IF yMove /\ c[3] = next[3] /\ c[4] = next[4] /\ Conflicted(rms, c, next)
        THEN [found |-> FALSE, next |-> next, oneWay |-> FALSE, goalReached |-> FALSE]
        ELSE IF yMove /\ allWallOrOneWay(rms, c, next) /\ goalNext
        THEN [found |-> TRUE, next |-> next, oneWay |-> TRUE, goalReached |-> TRUE]
        ELSE IF ~visited(rms, c, next)
        THEN [found |-> TRUE, next |-> next, oneWay |-> ow, goalReached |-> FALSE]
        ELSE IF goalNext
        THEN [found |-> TRUE, next |-> next, oneWay |-> ow, goalReached |-> TRUE]
        ELSE [found |-> FALSE, next |-> next, oneWay |-> ow, goalReached |-> FALSE]


\* The kind of an accepted step, in the order of the passage switch.
StepKind(c, next) ==
    CASE c[1] < next[1] -> "x+"
      [] c[1] > next[1] -> "x-"
      [] c[2] < next[2] -> "y+"
      [] c[2] > next[2] -> "y-"
      [] c[3] # next[3] -> "z"
      [] c[4] # next[4] -> "w"
      [] OTHER -> "stay"

\* The panic("not reached") statements of the y-passage assignment: a sibling
\* z-layer holds a state that contradicts the one being assigned.
Panics(rms, c, next, oneWay) ==
    /\ StepKind(c, next) \in {"y+", "y-"}
    /\ \E z \in 0..(depth0 - 1) :
          /\ z # next[3]
          /\ LET p == rms[YPassageRoom(c, next, z)].passageY
             IN  IF oneWay
                 THEN p \in {Opposing(c, next), passagePassable}
                 ELSE p \in {passageOneWayForward, passageOneWayBackward}

\* Mutant of SetPassage: a step to the left opens the passage of the room
\* it leaves instead of the room it enters.
SetPassageWrongRoom(rms, c, next, oneWay) ==
    IF c[1] > next[1]
    THEN [rms EXCEPT ![c].passageX = "Passable"]
    ELSE IF c[1] < next[1]
    THEN [rms EXCEPT ![c].passageX = "Passable"]
    ELSE IF c[2] # next[2]
    THEN [rms EXCEPT ![<<c[1], IF c[2] < next[2] THEN c[2] ELSE next[2], next[3], c[4]>>].passageY =
            IF ~oneWay THEN "Passable"
            ELSE IF c[2] < next[2] THEN "OneWayForward" ELSE "OneWayBackward"]
    ELSE IF c[3] # next[3]
    THEN [r \in DOMAIN rms |->
            IF r[1] = c[1] /\ r[2] = c[2] /\ r[4] = c[4] /\ r[3] < size[3] - 1
            THEN [rms[r] EXCEPT !.passageZ = "Passable"] ELSE rms[r]]
    ELSE IF c[4] # next[4]
    THEN [r \in DOMAIN rms |->
            IF r[1] = c[1] /\ r[2] = c[2] /\ r[3] = c[3] /\ r[4] < size[4] - 1
            THEN [rms[r] EXCEPT !.passageW = "Passable"] ELSE rms[r]]
    ELSE rms

\* The passage switch of an accepted step.
SetPassage(rms, c, next, oneWay) ==
    LET k == StepKind(c, next)
    IN  CASE k = "x+" -> [rms EXCEPT ![c].passageX = passagePassable]
          [] k = "x-" -> [rms EXCEPT ![<<next[1], c[2], c[3], c[4]>>].passageX = passagePassable]
          [] k \in {"y+", "y-"} ->
                [rms EXCEPT ![YPassageRoom(c, next, next[3])].passageY =
                    IF oneWay THEN Following(c, next) ELSE passagePassable]
          [] k = "z" ->
                \* The last Z's passage is always wall
                [r \in DOMAIN rms |->
                    IF r[1] = c[1] /\ r[2] = c[2] /\ r[4] = c[4] /\ r[3] < depth0 - 1
                    THEN [rms[r] EXCEPT !.passageZ = passagePassable]
                    ELSE rms[r]]
          [] k = "w" ->
                \* The last W's passage is always wall
                [r \in DOMAIN rms |->
                    IF r[1] = c[1] /\ r[2] = c[2] /\ r[3] = c[3] /\ r[4] < depth1 - 1
                    THEN [rms[r] EXCEPT !.passageW = passagePassable]
                    ELSE rms[r]]
          [] OTHER -> rms

\* Mutant of SetPathCount: a transition stamps every sibling layer with the
\* counter plus 1, whatever its distance from the departed layer.
SetPathCountFlat(rms, c, next, cnt) ==
    IF c[3] # next[3]
    THEN [r \in DOMAIN rms |->
            IF r[1] = next[1] /\ r[2] = next[2] /\ r[4] = next[4]
            THEN [rms[r] EXCEPT !.pathCount = cnt + 1]
            ELSE rms[r]]
    ELSE IF c[4] # next[4]
    THEN [r \in DOMAIN rms |->
            IF r[1] = next[1] /\ r[2] = next[2] /\ r[3] = next[3]
            THEN [rms[r] EXCEPT !.pathCount = cnt + 1]
            ELSE rms[r]]
    ELSE [rms EXCEPT ![next].pathCount = cnt + 1]

\* The pathCount stamping of an accepted step.
SetPathCount(rms, c, next, cnt) ==
    IF c[3] # next[3]
    THEN [r \in DOMAIN rms |->
            IF r[1] = next[1] /\ r[2] = next[2] /\ r[4] = next[4]
            THEN [rms[r] EXCEPT !.pathCount = cnt + abs(c[3] - r[3])]
            ELSE rms[r]]
    ELSE IF c[4] # next[4]
    THEN [r \in DOMAIN rms |->
            IF r[1] = next[1] /\ r[2] = next[2] /\ r[3] = next[3]
            THEN [rms[r] EXCEPT !.pathCount = cnt + abs(c[4] - r[4])]
            ELSE rms[r]]
    ELSE [rms EXCEPT ![next].pathCount = cnt + 1]

\* The body of the path loop after an accepted sample.
ApplyStep(rms, c, next, oneWay, cnt) ==
    SetPathCount(SetPassage(rms, c, next, oneWay), c, next, cnt)


(***************************************************************************)
(* Room Graph Generator: generateRooms and the NewFieldData retry loop.    *)
(***************************************************************************)
\* The rooms generateRooms allocates, with the start room stamped.
InitialRooms ==
    [c \in Coords |-> IF c = startCoord THEN [room EXCEPT !.pathCount = 1] ELSE room]

\* The clone tryAddPathWithOneWay makes of its argument: every row is copied
\* with append([]room{}, ...), so the clone holds the same values ...
CloneRooms(rms) == rms

\* Mutant of CallerRooms: the clone shares its rows with the argument.
CallerRoomsShared(orig, written) == written

\* ... and shares no storage with the argument: the caller's graph after the
\* callee has written `written' into its clone is still `orig'.
CallerRooms(orig, written) == orig

VisitedRooms(rms) == {c \in DOMAIN rms : rms[c].pathCount > 0}

\* Mutant of areEnoughRoomsVisited: a threshold of 7/10.
areEnoughRoomsVisitedSeven(rms) ==
    LET threshold == ((size[1] * size[2] * size[3] * size[4]) * 7) \div 10
        n == Cardinality({c \in DOMAIN rms : rms[c].pathCount > 0})
    IN  n >= 1 /\ n >= threshold

areEnoughRoomsVisited(rms) ==
    LET threshold == ((width * height * depth0 * depth1) * 8) \div 10
        n == Cardinality(VisitedRooms(rms))
    IN  n >= 1 /\ n >= threshold

\* Mutant of PathResult: the path is returned without a one-way passage.
PathResultAlways(ow, rms) == <<rms>>

\* The return value of tryAddPathWithOneWay after its loop: nil (<<>>) unless
\* the path holds a one-way passage.
PathResult(ow, rms) == IF ow THEN <<rms>> ELSE <<>>

\* Mutant of ReturnFromPath: after too many failed branches generateRooms
\* returns the graph it has instead of nil.
ReturnFromPathPartial(main, res, callerRooms) ==
    IF main
    THEN IF res = <<>>
         THEN /\ pc' = "returned"
              /\ ret' = <<>>
              /\ rooms' = callerRooms
              /\ failCount' = failCount
         ELSE /\ pc' = "branches"
              /\ ret' = ret
              /\ rooms' = [res[1] EXCEPT ![<<size[1] - 1, size[2] - 1, size[3] - 1,
                                             size[4] - 1>>].passageY = "Passable"]
              /\ failCount' = 0
    ELSE IF res = <<>>
         THEN /\ failCount' = failCount + 1
              /\ rooms' = callerRooms
              /\ IF failCount + 1 > MaxBranchFailures
                 THEN pc' = "returned" /\ ret' = <<callerRooms>>
                 ELSE pc' = "branches" /\ ret' = ret
         ELSE /\ pc' = "branches"
              /\ ret' = ret
              /\ rooms' = res[1]
              /\ failCount' = 0

\* Mutant of ForceGoalPassage: the passage of the room under the goal room.
ForceGoalPassageBelow(rms) ==
    [rms EXCEPT ![<<size[1] - 1, size[2] - 2, size[3] - 1, size[4] - 1>>].passageY =
                    "Passable"]

\* rooms[f.goalW][f.goalZ][f.goalY][f.goalX].passageY = passagePassable
ForceGoalPassage(rms) == [rms EXCEPT ![goalCoord].passageY = passagePassable]

\* generateRooms continues after tryAddPathWithOneWay returned res (<<>> is
\* nil) for the main path (main) or for a branch; callerRooms is the value of
\* generateRooms' rooms at that moment.
ReturnFromPath(main, res, callerRooms) ==
    IF main
    THEN IF res = <<>>
         THEN /\ pc' = "returned"
              /\ ret' = <<>>
              /\ rooms' = callerRooms
              /\ failCount' = failCount
         ELSE /\ pc' = "branches"
              /\ ret' = ret
              /\ rooms' = ForceGoalPassage(res[1])
              /\ failCount' = 0
    ELSE IF res = <<>>
         THEN /\ failCount' = failCount + 1
              /\ rooms' = callerRooms
              /\ IF failCount + 1 > MaxBranchFailures
                 THEN pc' = "returned" /\ ret' = <<>>
                 ELSE pc' = "branches" /\ ret' = ret
         ELSE /\ pc' = "branches"
              /\ ret' = ret
              /\ rooms' = res[1]
              /\ failCount' = 0

\* Entry of tryAddPathWithOneWay(rms, st, isGoal) up to the first loop test.
EnterPath(main, st, stCount, rms) ==
    /\ work' = CloneRooms(rms)
    /\ before' = rms
    /\ pos' = st
    /\ count' = rms[st].pathCount
    /\ oneWayExists' = FALSE
    /\ mainPath' = main
    /\ start' = st
    /\ startCount' = stCount
    /\ lastStep' = NoStep
    /\ IF isGoal(main, st, stCount, st, rms)
       THEN ReturnFromPath(main, PathResult(FALSE, rms), rms)
       ELSE pc' = "path" /\ rooms' = rms /\ ret' = ret /\ failCount' = failCount

\* NewFieldData calls generateRooms: first call, or again after a nil result.
GenerateRooms ==
    /\ pc = "new" \/ (pc = "returned" /\ ret = <<>>)
    /\ EnterPath(TRUE, startCoord, 1, InitialRooms)
    /\ attempts' = IF attempts < MaxAttempts THEN attempts + 1 ELSE attempts
    /\ UNCHANGED <<size, tiles, setTilesCalls, sceneVars, fieldVars>>

\* One iteration of the path loop whose sampling finds a candidate.
PathStep ==
    /\ pc = "path"
    /\ \E d \in Directions, coin \in BOOLEAN :
          LET s == Sample(mainPath, start, startCount, work, pos, d, coin)
          IN  /\ s.found
              /\ IF Panics(work, pos, s.next, s.oneWay)
                 THEN /\ pc' = "panic"
                      /\ UNCHANGED <<rooms, work, pos, count, oneWayExists, ret,
                                     failCount, lastStep>>
                 ELSE LET nw == ApplyStep(work, pos, s.next, s.oneWay, count)
                          ow == oneWayExists \/ s.oneWay
                          done == s.goalReached
                                  \/ isGoal(mainPath, start, startCount, s.next, nw)
                      IN  /\ work' = nw
                          /\ count' = count + 1
                          /\ oneWayExists' = ow
                          /\ pos' = IF s.goalReached THEN pos ELSE s.next
                          /\ lastStep' = [from |-> pos, to |-> s.next,
                                          oneWay |-> s.oneWay,
                                          goalReached |-> s.goalReached,
                                          toCount |-> work[s.next].pathCount,
                                          kind |-> StepKind(pos, s.next)]
                          /\ IF done
                             THEN ReturnFromPath(mainPath, PathResult(ow, nw),
                                                 CallerRooms(rooms, nw))
                             ELSE /\ pc' = "path"
                                  /\ rooms' = CallerRooms(rooms, nw)
                                  /\ UNCHANGED <<ret, failCount>>
    /\ UNCHANGED <<size, mainPath, start, startCount, before, tiles,
                   setTilesCalls, attempts, sceneVars, fieldVars>>

\* One iteration of the path loop whose samples are all rejected ("Give up
\* when no new path is created"): possible when some sample is rejected.
GiveUp ==
    /\ pc = "path"
    /\ \E d \in Directions, coin \in BOOLEAN :
          ~Sample(mainPath, start, startCount, work, pos, d, coin).found
    /\ ReturnFromPath(mainPath, <<>>, CallerRooms(rooms, work))
    /\ lastStep' = NoStep
    /\ UNCHANGED <<size, work, pos, count, oneWayExists, mainPath, start,
                   startCount, before, tiles, setTilesCalls, attempts, sceneVars, fieldVars>>

\* The branch loop finds enough rooms visited: generateRooms returns rooms.
ReturnRooms ==
    /\ pc = "branches"
    /\ areEnoughRoomsVisited(rooms)
    /\ pc' = "returned"
    /\ ret' = <<rooms>>
    /\ UNCHANGED <<size, rooms, work, pos, count, oneWayExists, mainPath, start,
                   startCount, failCount, before, lastStep, tiles,
                   setTilesCalls, attempts, sceneVars, fieldVars>>

\* The branch loop picks a visited room at random and grows a branch from it.
AddBranch ==
    /\ pc = "branches"
    /\ ~areEnoughRoomsVisited(rooms)
    /\ \E st \in VisitedRooms(rooms) :
          EnterPath(FALSE, st, rooms[st].pathCount, rooms)
    /\ UNCHANGED <<size, tiles, setTilesCalls, attempts, sceneVars, fieldVars>>


(***************************************************************************)
(* Tile Compiler.                                                          *)
(***************************************************************************)
roomYGridCount == 3

roomXGridCount ==
    CASE depth1 = 1 -> 6
      [] depth1 = 2 -> 8

\* Dimensions of f.tiles (setTiles' width and height).
tilesWidth == width * roomXGridCount + 1
tilesHeight == height * roomYGridCount + 2
TileCoords == (0..(tilesWidth - 1)) \X (0..(tilesHeight - 1))

Layers1 == 0..(depth1 - 1)
Layers0 == 0..(depth0 - 1)

\* Mutant of wallColors: the two colours are exchanged.
wallColorsExchanged(rms, roomX, roomY) ==
    [w \in 0..(size[4] - 1) |->
        LET x0 == rms[<<roomX, roomY, 0, w>>].passageX = "Wall"
            x1 == rms[<<roomX, roomY, 1, w>>].passageX = "Wall"
        IN  [color |-> IF ~x0 /\ x1 THEN 2 ELSE IF x0 /\ ~x1 THEN 1 ELSE 0,
             ok |-> x0 \/ x1]]

\* wallColors: colors[w] and oks[w] of room (roomX, roomY).
wallColors(rms, roomX, roomY) ==
    [w \in Layers1 |->
        LET x0 == rms[<<roomX, roomY, 0, w>>].passageX = passageWall
            x1 == rms[<<roomX, roomY, 1, w>>].passageX = passageWall
        IN  [color |-> IF ~x0 /\ x1 THEN 1 ELSE IF x0 /\ ~x1 THEN 2 ELSE 0,
             ok |-> x0 \/ x1]]

\* Mutant of ladderColors: the two colours are exchanged.
ladderColorsExchanged(rms, roomX, roomY) ==
    [w \in 0..(size[4] - 1) |->
        LET y0 == rms[<<roomX, roomY, 0, w>>].passageY # "Wall"
            y1 == rms[<<roomX, roomY, 1, w>>].passageY # "Wall"
        IN  [color |-> IF y0 /\ ~y1 THEN 2 ELSE IF ~y0 /\ y1 THEN 1 ELSE 0,
             ok |-> y0 \/ y1]]

\* ladderColors: colors[w] and oks[w] of room (roomX, roomY).
ladderColors(rms, roomX, roomY) ==
    [w \in Layers1 |->
        LET y0 == rms[<<roomX, roomY, 0, w>>].passageY # passageWall
            y1 == rms[<<roomX, roomY, 1, w>>].passageY # passageWall
        IN  [color |-> IF y0 /\ ~y1 THEN 1 ELSE IF ~y0 /\ y1 THEN 2 ELSE 0,
             ok |-> y0 \/ y1]]

doorColor(rms, roomX, roomY) ==
    LET w0 == rms[<<roomX, roomY, 0, 0>>].passageW # passageWall
        w1 == rms[<<roomX, roomY, 1, 0>>].passageW # passageWall
    IN  [color |-> IF w0 /\ ~w1 THEN 1 ELSE IF ~w0 /\ w1 THEN 2 ELSE 0,
         ok |-> w0 \/ w1]

\* passageYs[w] of setTilesForRoom: the state of the non-Wall z-layers.
passageYs(rms, roomX, roomY, w) ==
    LET open == {z \in Layers0 : rms[<<roomX, roomY, z, w>>].passageY # passageWall}
    IN  IF open = {} THEN passageWall
        ELSE rms[<<roomX, roomY, CHOOSE z \in open : \A z2 \in open : z <= z2, w>>].passageY

\* The panic("not reached") of the ladder scan: two non-Wall z-layers differ.
LadderPanics(rms) ==
    \E c1 \in DOMAIN rms, c2 \in DOMAIN rms :
        /\ c1[1] = c2[1] /\ c1[2] = c2[2] /\ c1[4] = c2[4]
        /\ rms[c1].passageY # passageWall
        /\ rms[c2].passageY # passageWall
        /\ rms[c1].passageY # rms[c2].passageY

\* allNonColorWall of the wall loop of room (roomX, roomY).
allNonColorWall(rms, roomX, roomY) ==
    \A w \in Layers1 : wallColors(rms, roomX, roomY)[w].ok
                       /\ wallColors(rms, roomX, roomY)[w].color = 0

\* x of the wall column of a room before the per-layer offset.
WallX(roomX) == roomX * roomXGridCount + roomXGridCount - 1 + 1 - (depth1 - 1)
LadderX(roomX, roomY, w) == roomX * roomXGridCount + 1 + ((roomY + w) % 2) + 1
SwitchX(roomX, w) == roomX * roomXGridCount + 3 + w + 1
DoorX(roomX) == roomX * roomXGridCount + 5 + 1
FloorY(roomY) == roomY * roomYGridCount + 1

\* The room whose tile block (the columns its setTilesForRoom call writes)
\* holds column x / row y; the rooms are <<roomX, roomY>> in RoomCells.
RoomCells == (0..(width - 1)) \X (0..(height - 1))

\* Mutant of SwitchRoom: the z-passage of the last z-layer is looked at.
SwitchRoomLastZ(rms, roomX, roomY, w) ==
    rms[<<roomX, roomY, size[3] - 1, w>>].passageZ # "Wall"

\* Mutant of SwitchRoom: the z-passage of any w-layer gives a switch.
SwitchRoomAnyW(rms, roomX, roomY, w) ==
    \E w2 \in 0..(size[4] - 1) : rms[<<roomX, roomY, 0, w2>>].passageZ # "Wall"

\* "Add switches": room (roomX, roomY) gets a switch in layer w.
SwitchRoom(rms, roomX, roomY, w) ==
    rms[<<roomX, roomY, 0, w>>].passageZ # passageWall

\* Mutant of OutsideWall: the far corner tile is left open.
OutsideWallNoCorner(x, y) == y = 0 \/ x = 0

\* "Set the outside walls": row 0, column 0 and the tile tiles[height-1][width-1].
OutsideWall(x, y) == y = 0 \/ x = 0 \/ (x = tilesWidth - 1 /\ y = tilesHeight - 1)

\* Mutant of GoalTile: the goal is put on the far corner tile.
GoalTileCorner(x, y) == x = tilesWidth - 1 /\ y = tilesHeight - 1

\* "Set the goal": tiles[height-1][width-roomXGridCount-1].goal = true.
GoalTile(x, y) == x = tilesWidth - roomXGridCount - 1 /\ y = tilesHeight - 1

\* The tile grid setTiles builds from rms.
CompileTiles(rms) ==
    [t \in TileCoords |->
        LET x == t[1]
            y == t[2]
            \* rooms whose wall column covers the tile, per layer w
            wallHit(w) ==
                {r \in RoomCells :
                    /\ y \in FloorY(r[2])..(FloorY(r[2]) + roomYGridCount - 2)
                    /\ IF allNonColorWall(rms, r[1], r[2])
                       THEN x = WallX(r[1]) + (depth1 - 1)
                       ELSE wallColors(rms, r[1], r[2])[w].ok /\ x = WallX(r[1]) + w}
            ceilingHit ==
                \E r \in RoomCells :
                    /\ y = (r[2] + 1) * roomYGridCount - 1 + 1
                    /\ x \in (r[1] * roomXGridCount + 1)..(r[1] * roomXGridCount + roomXGridCount)
            outside == OutsideWall(x, y)
            ladderHit(w) ==
                {r \in RoomCells :
                    /\ y \in FloorY(r[2])..(FloorY(r[2]) + roomYGridCount - 1)
                    /\ ladderColors(rms, r[1], r[2])[w].ok
                    /\ x = LadderX(r[1], r[2], w)}
            doorHit == {r \in RoomCells : doorColor(rms, r[1], r[2]).ok /\ x = DoorX(r[1])
                                          /\ y = FloorY(r[2])}
            doorUpperHit == {r \in RoomCells : doorColor(rms, r[1], r[2]).ok
                                               /\ x = DoorX(r[1]) /\ y = FloorY(r[2]) + 1}
        IN  [walls |-> [w \in Layers1 |-> outside \/ ceilingHit \/ wallHit(w) # {}],
             wallColors |-> [w \in Layers1 |->
                 IF wallHit(w) # {} /\ ~(\E r \in wallHit(w) : allNonColorWall(rms, r[1], r[2]))
                 THEN LET r == CHOOSE r \in wallHit(w) : TRUE
                      IN  wallColors(rms, r[1], r[2])[w].color
                 ELSE 0],
             ladders |-> [w \in Layers1 |-> ladderHit(w) # {}],
             ladderColors |-> [w \in Layers1 |->
                 IF ladderHit(w) # {}
                 THEN LET r == CHOOSE r \in ladderHit(w) : TRUE
                      IN  ladderColors(rms, r[1], r[2])[w].color
                 ELSE 0],
             upward |-> \E w \in Layers1 : \E r \in ladderHit(w) :
                            passageYs(rms, r[1], r[2], w) = passageOneWayForward,
             downward |-> \E w \in Layers1 : \E r \in ladderHit(w) :
                            passageYs(rms, r[1], r[2], w) = passageOneWayBackward,
             switches |-> [w \in Layers1 |->
                 \E r \in RoomCells :
                     /\ SwitchRoom(rms, r[1], r[2], w)
                     /\ x = SwitchX(r[1], w)
                     /\ y = FloorY(r[2])],
             door |-> doorHit # {},
             doorUpper |-> doorUpperHit # {},
             doorColor |->
                 IF doorHit \cup doorUpperHit # {}
                 THEN LET r == CHOOSE r \in doorHit \cup doorUpperHit : TRUE
                      IN  doorColor(rms, r[1], r[2]).color
                 ELSE 0,
             goal |-> GoalTile(x, y)]]

(***************************************************************************)
(* Passability Model (queries over a tile grid tl).                        *)
(***************************************************************************)
\* The bounds test every query starts with.
InGrid(tl, x, y) == <<x, y>> \in DOMAIN tl

LadderUsable(t, currentDepth0, currentDepth1) ==
    /\ t.ladders[currentDepth1]
    /\ (t.ladderColors[currentDepth1] = 0
        \/ t.ladderColors[currentDepth1] - 1 = currentDepth0)

WallSolid(t, currentDepth0, currentDepth1) ==
    /\ t.walls[currentDepth1]
    /\ (t.wallColors[currentDepth1] = 0
        \/ t.wallColors[currentDepth1] - 1 # currentDepth0)

\* Mutant of canBeInTile: the wall is tested before the ladder.
canBeInTileWallFirst(tl, x, y, currentDepth0, currentDepth1) ==
    IF <<x, y>> \notin DOMAIN tl THEN FALSE
    ELSE IF WallSolid(tl[<<x, y>>], currentDepth0, currentDepth1) THEN FALSE
    ELSE TRUE

canBeInTile(tl, x, y, currentDepth0, currentDepth1) ==
    IF ~InGrid(tl, x, y) THEN FALSE
    ELSE IF LadderUsable(tl[<<x, y>>], currentDepth0, currentDepth1) THEN TRUE
    ELSE IF WallSolid(tl[<<x, y>>], currentDepth0, currentDepth1) THEN FALSE
    ELSE TRUE

\* Mutant of canStandOnTile: the outside of the grid counts as solid ground.
canStandOnTileOutsideSolid(tl, x, y, currentDepth0, currentDepth1) ==
    IF <<x, y>> \notin DOMAIN tl THEN TRUE
    ELSE IF LadderUsable(tl[<<x, y>>], currentDepth0, currentDepth1) THEN TRUE
    ELSE IF WallSolid(tl[<<x, y>>], currentDepth0, currentDepth1) THEN TRUE
    ELSE FALSE

\* Mutant of canStandOnTile: a ladder gives no support.
canStandOnTileNoLadder(tl, x, y, currentDepth0, currentDepth1) ==
    IF <<x, y>> \notin DOMAIN tl THEN FALSE
    ELSE WallSolid(tl[<<x, y>>], currentDepth0, currentDepth1)

canStandOnTile(tl, x, y, currentDepth0, currentDepth1) ==
    IF ~InGrid(tl, x, y) THEN FALSE
    ELSE IF LadderUsable(tl[<<x, y>>], currentDepth0, currentDepth1) THEN TRUE
    ELSE IF WallSolid(tl[<<x, y>>], currentDepth0, currentDepth1) THEN TRUE
    ELSE FALSE

\* Mutant of canGoUp: the colour of the ladder is not looked at.
canGoUpAnyColor(tl, x, y, currentDepth0, currentDepth1) ==
    IF <<x, y>> \notin DOMAIN tl THEN FALSE
    ELSE ~tl[<<x, y>>].downward

\* Mutant of canGoUp: the downward flag is not looked at.
canGoUpAlways(tl, x, y, currentDepth0, currentDepth1) == <<x, y>> \in DOMAIN tl

canGoUp(tl, x, y, currentDepth0, currentDepth1) ==
    IF ~InGrid(tl, x, y) THEN FALSE
    ELSE LET t == tl[<<x, y>>]
         IN  IF ~t.ladders[currentDepth1] THEN TRUE
             ELSE IF t.ladderColors[currentDepth1] > 0
                     /\ t.ladderColors[currentDepth1] - 1 # currentDepth0 THEN TRUE
             ELSE ~t.downward

\* Mutant of canGoDown: it tests the downward flag, as canGoUp does.
canGoDownWrongFlag(tl, x, y, currentDepth0, currentDepth1) ==
    IF <<x, y>> \notin DOMAIN tl THEN FALSE
    ELSE LET t == tl[<<x, y>>]
         IN  IF ~t.ladders[currentDepth1] THEN TRUE
             ELSE IF t.ladderColors[currentDepth1] > 0
                     /\ t.ladderColors[currentDepth1] - 1 # currentDepth0 THEN TRUE
             ELSE ~t.downward

canGoDown(tl, x, y, currentDepth0, currentDepth1) ==
    IF ~InGrid(tl, x, y) THEN FALSE
    ELSE LET t == tl[<<x, y>>]
         IN  IF ~t.ladders[currentDepth1] THEN TRUE
             ELSE IF t.ladderColors[currentDepth1] > 0
                     /\ t.ladderColors[currentDepth1] - 1 # currentDepth0 THEN TRUE
             ELSE ~t.upward

\* Mutant of passable: the direction tests are exchanged.
passableSwapped(tl, nextX, nextY, prevY, currentDepth0, currentDepth1) ==
    IF <<nextX, nextY>> \notin DOMAIN tl THEN FALSE
    ELSE IF ~canBeInTile(tl, nextX, nextY, currentDepth0, currentDepth1) THEN FALSE
    ELSE IF ~canStandOnTile(tl, nextX, nextY - 1, currentDepth0, currentDepth1) THEN FALSE
    ELSE IF nextY > prevY /\ ~canGoDown(tl, nextX, nextY, currentDepth0, currentDepth1) THEN FALSE
    ELSE IF nextY < prevY /\ ~canGoUp(tl, nextX, nextY, currentDepth0, currentDepth1) THEN FALSE
    ELSE TRUE

passable(tl, nextX, nextY, prevY, currentDepth0, currentDepth1) ==
    IF ~InGrid(tl, nextX, nextY) THEN FALSE
    ELSE IF ~canBeInTile(tl, nextX, nextY, currentDepth0, currentDepth1) THEN FALSE
    ELSE IF ~canStandOnTile(tl, nextX, nextY - 1, currentDepth0, currentDepth1) THEN FALSE
    ELSE IF nextY > prevY /\ ~canGoUp(tl, nextX, nextY, currentDepth0, currentDepth1) THEN FALSE
    ELSE IF nextY < prevY /\ ~canGoDown(tl, nextX, nextY, currentDepth0, currentDepth1) THEN FALSE
    ELSE TRUE

\* NewFieldData leaves the retry loop with a non-nil graph and compiles it.
SetTiles ==
    /\ pc = "returned"
    /\ ret # <<>>
    /\ setTilesCalls' = setTilesCalls + 1
    /\ IF LadderPanics(ret[1])
       THEN pc' = "panic" /\ tiles' = tiles
       ELSE pc' = "compiled" /\ tiles' = CompileTiles(ret[1])
    /\ UNCHANGED <<size, rooms, work, pos, count, oneWayExists, mainPath, start,
                   startCount, failCount, ret, before, lastStep, attempts,
                   sceneVars, fieldVars>>

(***************************************************************************)
(* GameScene: Update (the tick loop) and the generation goroutine.         *)
(* g.fieldCh is written by the goroutine and read by Update without        *)
(* synchronisation: a read by Update that races with the goroutine's       *)
(* g.fieldCh = nil returns the old or the new value.                       *)
(***************************************************************************)
NoTick == [fieldBefore |-> "nil", ready |-> FALSE, received |-> "none",
           updated |-> FALSE, spawned |-> FALSE]

\* The values a read of g.fieldCh by Update can return.
ReadFieldCh == IF staleCh THEN {"ch", "nil"} ELSE {fieldCh}

\* Update up to the select: BGM start, and the start of the goroutine.
UpdateBegin ==
    /\ tpc = "idle"
    /\ bgmStarted' = (bgmStarted \/ field # "nil")
    /\ \E seen \in ReadFieldCh :
          IF field = "nil" /\ seen = "nil"
          THEN /\ fieldCh' = "ch"
               /\ chClosed' = FALSE
               /\ staleCh' = FALSE
               /\ gpc' = "NewField"
               /\ started' = IF started < MaxStarted THEN started + 1 ELSE started
               /\ tickLog' = [NoTick EXCEPT !.fieldBefore = field, !.spawned = TRUE]
          ELSE /\ staleCh' = (staleCh /\ (field # "nil" \/ seen # "nil"))
               /\ tickLog' = [NoTick EXCEPT !.fieldBefore = field]
               /\ UNCHANGED <<fieldCh, chClosed, gpc, started>>
    /\ tpc' = "select"
    /\ UNCHANGED <<field, sceneGoal, genVars, fieldVars>>

\* Mutant of UpdateSelect: a plain receive, a select without default.
UpdateSelectBlocking ==
    /\ tpc = "select"
    /\ \E seen \in ReadFieldCh :
          /\ staleCh' = (staleCh /\ seen # "nil")
          /\ IF seen # "nil" /\ gpc = "send"
             THEN /\ field' = "F"
                  /\ sceneGoal' = FALSE
                  /\ gpc' = "close"
                  /\ tickLog' = [tickLog EXCEPT !.received = "F", !.ready = TRUE]
             ELSE /\ seen # "nil" /\ chClosed
                  /\ field' = "nil"
                  /\ tickLog' = [tickLog EXCEPT !.received = "nil"]
                  /\ UNCHANGED <<gpc, sceneGoal>>
    /\ tpc' = "tail"
    /\ UNCHANGED <<fieldCh, chClosed, bgmStarted, started, genVars, fieldVars>>

\* Mutant of UpdateSelect: the select always takes its default case.
UpdateSelectDefault ==
    /\ tpc = "select"
    /\ tpc' = "tail"
    /\ UNCHANGED <<field, gpc, sceneGoal, tickLog, staleCh, fieldCh, chClosed,
                   bgmStarted, started, genVars, fieldVars>>

\* The select statement: a receive from g.fieldCh when a sender waits or the
\* channel is closed (the zero value nil is received), the default otherwise.
UpdateSelect ==
    /\ tpc = "select"
    /\ \E seen \in ReadFieldCh :
          /\ staleCh' = (staleCh /\ seen # "nil")
          /\ IF seen # "nil" /\ gpc = "send"
             THEN /\ field' = "F"
                  /\ sceneGoal' = FALSE
                  /\ gpc' = "close"
                  /\ tickLog' = [tickLog EXCEPT !.received = "F", !.ready = TRUE]
             ELSE IF seen # "nil" /\ chClosed
             THEN /\ field' = "nil"
                  /\ tickLog' = [tickLog EXCEPT !.received = "nil"]
                  /\ UNCHANGED <<gpc, sceneGoal>>
             ELSE UNCHANGED <<field, gpc, sceneGoal, tickLog>>
    /\ tpc' = "tail"
    /\ UNCHANGED <<fieldCh, chClosed, bgmStarted, started, genVars, fieldVars>>

\* Update after the select: return while g.field is nil, else Field.Update
\* (which may reach the goal) and GoToTitle on a key press after the goal.
UpdateEnd ==
    /\ tpc = "tail"
    /\ IF field = "nil"
       THEN tpc' = "idle" /\ UNCHANGED <<sceneGoal, tickLog>>
       ELSE /\ tickLog' = [tickLog EXCEPT !.updated = TRUE]
            /\ \E reached \in BOOLEAN, key \in BOOLEAN :
                  /\ sceneGoal' = (sceneGoal \/ reached)
                  /\ tpc' = IF sceneGoal' /\ key THEN "left" ELSE "idle"
    /\ UNCHANGED <<field, fieldCh, chClosed, gpc, staleCh, bgmStarted, started, genVars, fieldVars>>

\* The goroutine: game.NewField returns.
GoNewField ==
    /\ gpc = "NewField"
    /\ gpc' = "timer"
    /\ UNCHANGED <<field, fieldCh, chClosed, tpc, staleCh, bgmStarted, sceneGoal,
                   started, tickLog, genVars, fieldVars>>

\* The goroutine: <-t.C, the timer of one second has fired; t.Stop().
GoTimer ==
    /\ gpc = "timer"
    /\ gpc' = "send"
    /\ UNCHANGED <<field, fieldCh, chClosed, tpc, staleCh, bgmStarted, sceneGoal,
                   started, tickLog, genVars, fieldVars>>

\* The goroutine: close(g.fieldCh), after its send was received by a select.
GoClose ==
    /\ gpc = "close"
    /\ chClosed' = TRUE
    /\ gpc' = "clear"
    /\ UNCHANGED <<field, fieldCh, tpc, staleCh, bgmStarted, sceneGoal, started,
                   tickLog, genVars, fieldVars>>

\* The goroutine: g.fieldCh = nil, its last statement.
GoClear ==
    /\ gpc = "clear"
    /\ fieldCh' = "nil"
    /\ staleCh' = TRUE
    /\ gpc' = "exited"
    /\ UNCHANGED <<field, chClosed, tpc, bgmStarted, sceneGoal, started, tickLog,
                   genVars, fieldVars>>

(***************************************************************************)
(* Field: the agent on the compiled tile grid (NewField, Field.Update).    *)
(* Field.Update runs against the FieldData queries modelled above, with    *)
(* the z-layer it toggles and the w-layer NewField leaves at its zero      *)
(* value.                                                                  *)
(***************************************************************************)
GridSize == 16

\* const v of Field.Update: the offset added per tick.
v == 3

\* The key state one Field.Update reads: space is IsKeyJustPressed(KeySpace),
\* the others IsKeyPressed of the four arrow keys.
Keys == [space : BOOLEAN, up : BOOLEAN, down : BOOLEAN, left : BOOLEAN, right : BOOLEAN]

NoKeys == [space |-> FALSE, up |-> FALSE, down |-> FALSE, left |-> FALSE, right |-> FALSE]

hasSwitch(tl, x, y, depth1Now) == tl[<<x, y>>].switches[depth1Now]

\* Mutant of tileIsGoal: only the row of the tile is compared.
tileIsGoalRow(tl, x, y) == y = tilesHeight - 1

\* FieldData.isGoal(x, y).
tileIsGoal(tl, x, y) == tl[<<x, y>>].goal

\* nextX, nextY of Field.Update for the keys k.
nextXOf(k) == playerX - (IF k.left THEN 1 ELSE 0) + (IF k.right THEN 1 ELSE 0)
nextYOf(k) == playerY + (IF k.up THEN 1 ELSE 0) - (IF k.down THEN 1 ELSE 0)

\* Mutant of depthAfterSwitch: the switch flag of the tile is not tested.
depthAfterSwitchAnywhere(k) ==
    IF k.space THEN (currentDepth + 1) % depth0 ELSE currentDepth

\* currentDepth after the switch test of Field.Update for the keys k.
depthAfterSwitch(k) ==
    IF k.space /\ hasSwitch(tiles, playerX, playerY, currentW)
    THEN (currentDepth + 1) % depth0
    ELSE currentDepth

\* Mutant of moveAccepted: the tile below the destination is not examined.
moveAcceptedUnsupported(k, d0) ==
    canBeInTile(tiles, nextXOf(k), nextYOf(k), d0, currentW)

\* Mutant of moveAccepted: only the tile below the destination is examined.
moveAcceptedIntoWall(k, d0) ==
    canStandOnTile(tiles, nextXOf(k), nextYOf(k) - 1, d0, currentW)

\* The passable test of Field.Update for the keys k and the z-layer d0.
moveAccepted(k, d0) ==
    passable(tiles, nextXOf(k), nextYOf(k), playerY, d0, currentW)

\* Mutant of advance: the sign of the offset is ignored.
advanceUnsigned(d) == IF d # 0 THEN d + v ELSE d

\* An offset after one animation tick, before the arrival test.
advance(d) == IF d > 0 THEN d + v ELSE IF d < 0 THEN d - v ELSE d

\* No Field has been built yet.
FieldNone ==
    /\ fieldMade = FALSE
    /\ playerX = 0
    /\ playerY = 0
    /\ dx = 0
    /\ dy = 0
    /\ currentDepth = 0
    /\ currentW = 0
    /\ goalReached = FALSE
    /\ keys = NoKeys
    /\ animTicks = 0

\* NewField, after NewFieldData has returned the compiled FieldData.
NewField ==
    /\ pc = "compiled"
    /\ ~fieldMade
    /\ fieldMade' = TRUE
    /\ playerX' = 1
    /\ playerY' = 1
    /\ dx' = 0
    /\ dy' = 0
    /\ currentDepth' = 0
    /\ currentW' = 0
    /\ goalReached' = FALSE
    /\ keys' = NoKeys
    /\ animTicks' = 0
    /\ UNCHANGED <<genVars, sceneVars>>

\* Field.Update: one tick with the key state k.  The keys are read only when
\* the agent is at rest; keys records them (NoKeys for a tick that reads none).
FieldUpdate ==
    /\ fieldMade
    /\ \E k \in Keys :
          /\ keys' = IF goalReached \/ dx # 0 \/ dy # 0 THEN NoKeys ELSE k
          /\ IF goalReached
             THEN UNCHANGED <<playerX, playerY, dx, dy, currentDepth, goalReached,
                              animTicks>>
             ELSE IF dx # 0 \/ dy # 0
             THEN LET dx1 == advance(dx)
                      dy1 == advance(dy)
                      x1 == IF dx1 >= GridSize THEN playerX + 1
                            ELSE IF dx1 <= -GridSize THEN playerX - 1 ELSE playerX
                      y1 == IF dy1 >= GridSize THEN playerY + 1
                            ELSE IF dy1 <= -GridSize THEN playerY - 1 ELSE playerY
                  IN  /\ playerX' = x1
                      /\ playerY' = y1
                      /\ dx' = IF dx1 >= GridSize \/ dx1 <= -GridSize THEN 0 ELSE dx1
                      /\ dy' = IF dy1 >= GridSize \/ dy1 <= -GridSize THEN 0 ELSE dy1
                      /\ goalReached' = tileIsGoal(tiles, x1, y1)
                      /\ animTicks' = animTicks + 1
                      /\ UNCHANGED currentDepth
             ELSE LET d0 == depthAfterSwitch(k)
                      nextX == nextXOf(k)
                      nextY == nextYOf(k)
                      ok == moveAccepted(k, d0)
                  IN  /\ currentDepth' = d0
                      /\ dx' = IF ok /\ nextX > playerX THEN v
                               ELSE IF ok /\ nextX < playerX THEN -v ELSE dx
                      /\ dy' = IF ok /\ nextY > playerY THEN v
                               ELSE IF ok /\ nextY < playerY THEN -v ELSE dy
                      /\ animTicks' = 0
                      /\ UNCHANGED <<playerX, playerY, goalReached>>
    /\ UNCHANGED <<fieldMade, currentW, genVars, sceneVars>>

(***************************************************************************)
(* Specifications.                                                         *)
(***************************************************************************)
SceneIdle ==
    /\ field = "nil"
    /\ fieldCh = "nil"
    /\ chClosed = FALSE
    /\ gpc = "none"
    /\ tpc = "idle"
    /\ staleCh = FALSE
    /\ bgmStarted = FALSE
    /\ sceneGoal = FALSE
    /\ started = 0
    /\ tickLog = NoTick

\* NewFieldData is about to call generateRooms for the first time.
NewFieldDataCalled ==
    /\ pc = "new"
    /\ rooms = InitialRooms
    /\ work = InitialRooms
    /\ before = InitialRooms
    /\ pos = startCoord
    /\ count = 1
    /\ oneWayExists = FALSE
    /\ mainPath = TRUE
    /\ start = startCoord
    /\ startCount = 1
    /\ failCount = 0
    /\ ret = <<>>
    /\ lastStep = NoStep
    /\ tiles = <<>>
    /\ setTilesCalls = 0
    /\ attempts = 0
    /\ SceneIdle
    /\ FieldNone

Init ==
    /\ size \in Sizes
    /\ NewFieldDataCalled

Next ==
    \/ GenerateRooms
    \/ PathStep
    \/ GiveUp
    \/ ReturnRooms
    \/ AddBranch
    \/ SetTiles

Spec == Init /\ [][Next]_vars

\* The generator on layer counts beyond those of NewFieldData, which builds
\* depth0 = 2 only: generateRooms and tryAddPathWithOneWay are written for any
\* f.depth0 and f.depth1 (their loops range over them).  One FieldData with
\* three z-layers, and one of the program's with two w-layers.
LayerSizes == {<<1, 3, 3, 1>>, <<1, 2, 2, 2>>}

LayerInit ==
    /\ size \in LayerSizes
    /\ NewFieldDataCalled

LayerSpec == LayerInit /\ [][Next]_vars

\* generateRooms after a main path of six steps on a level of size (2,3,2,1):
\* the branch loop of generateRooms runs on the graph of that path.
BranchSize == <<2, 3, 2, 1>>

\* The accepted steps of the main path: the rooms entered, and whether the
\* step made a one-way passage.
BranchMainPath ==
    << [to |-> <<0, 1, 0, 0>>, oneWay |-> FALSE],
       [to |-> <<0, 1, 1, 0>>, oneWay |-> FALSE],
       [to |-> <<0, 2, 1, 0>>, oneWay |-> TRUE],
       [to |-> <<0, 2, 0, 0>>, oneWay |-> FALSE],
       [to |-> <<1, 2, 0, 0>>, oneWay |-> FALSE],
       [to |-> <<1, 2, 1, 0>>, oneWay |-> FALSE] >>

\* The graph tryAddPathWithOneWay builds by the accepted steps `steps' from
\* room c with counter cnt.
RECURSIVE Walked(_, _, _, _)
Walked(rms, c, cnt, steps) ==
    IF steps = <<>> THEN rms
    ELSE Walked(ApplyStep(rms, c, steps[1].to, steps[1].oneWay, cnt),
                steps[1].to, cnt + 1, Tail(steps))

\* generateRooms has adopted the main path and enters its branch loop.
MainPathAdopted(steps) ==
    LET g == Walked(InitialRooms, startCoord, 1, steps)
        n == Len(steps)
    IN  /\ pc = "branches"
        /\ rooms = ForceGoalPassage(g)
        /\ work = g
        /\ before = InitialRooms
        /\ pos = steps[n].to
        /\ count = n + 1
        /\ oneWayExists = TRUE
        /\ mainPath = TRUE
        /\ start = startCoord
        /\ startCount = 1
        /\ failCount = 0
        /\ ret = <<>>
        /\ lastStep = [from |-> steps[n - 1].to, to |-> steps[n].to,
                       oneWay |-> steps[n].oneWay, goalReached |-> FALSE,
                       toCount |-> 0, kind |-> StepKind(steps[n - 1].to, steps[n].to)]
        /\ tiles = <<>>
        /\ setTilesCalls = 0
        /\ attempts = 1

BranchInit ==
    /\ size = BranchSize
    /\ MainPathAdopted(BranchMainPath)
    /\ SceneIdle
    /\ FieldNone

BranchNext ==
    \/ AddBranch
    \/ PathStep
    \/ GiveUp
    \/ ReturnRooms

BranchSpec == BranchInit /\ [][BranchNext]_vars

\* setTiles as a function of the graph it is given: graphs of two sizes, one
\* with one and one with two w-layers, whose x-passages are drawn freely
\* (a room of the last column never has an x-passage).
CompileSizes == {<<2, 2, 2, 1>>, <<2, 2, 2, 2>>}

BorderGraph(open) ==
    [c \in Coords |->
        IF c \in open THEN [room EXCEPT !.passageX = passagePassable] ELSE room]

\* generateRooms has returned the graph g to NewFieldData.
GraphReturned(g) ==
    /\ pc = "returned"
    /\ rooms = g
    /\ work = g
    /\ before = InitialRooms
    /\ pos = goalCoord
    /\ count = 1
    /\ oneWayExists = TRUE
    /\ mainPath = FALSE
    /\ start = startCoord
    /\ startCount = 1
    /\ failCount = 0
    /\ ret = <<g>>
    /\ lastStep = NoStep
    /\ tiles = <<>>
    /\ setTilesCalls = 0
    /\ attempts = 1

CompileInit ==
    /\ size \in CompileSizes
    /\ \E open \in SUBSET {c \in Coords : c[1] < width - 1} :
           GraphReturned(BorderGraph(open))
    /\ SceneIdle
    /\ FieldNone

CompileNext == SetTiles

CompileSpec == CompileInit /\ [][CompileNext]_vars

\* The scene alone; the generator is inside the goroutine's NewField step.
SceneNext ==
    \/ UpdateBegin
    \/ UpdateSelect
    \/ UpdateEnd
    \/ GoNewField
    \/ GoTimer
    \/ GoClose
    \/ GoClear

SceneInit == Init /\ size = <<2, 2, 2, 1>>

SceneSpec == SceneInit /\ [][SceneNext]_vars

\* The scene under fair scheduling: the tick loop keeps calling Update as long
\* as the scene is shown, and the goroutine, once NewField has returned, is
\* given its turn (the timer fires, the statements after a completed send run).
\* Nothing is assumed about NewField returning.
SceneFairness ==
    /\ WF_vars(UpdateBegin \/ UpdateSelect \/ UpdateEnd)
    /\ WF_vars(GoTimer \/ GoClose \/ GoClear)

SceneFairSpec == SceneSpec /\ SceneFairness

\* Two levels NewFieldData returns: each is a graph in which the main path
\* alone has visited every room, with the last accepted step of that path.
SampleRoomsA ==
    (<<0, 0, 0, 0>> :> [passageX |-> "Passable", passageY |-> "Wall", passageZ |-> "Wall", passageW |-> "Wall", pathCount |-> 1] @@
     <<0, 0, 1, 0>> :> [passageX |-> "Passable", passageY |-> "OneWayBackward", passageZ |-> "Wall", passageW |-> "Wall", pathCount |-> 6] @@
     <<0, 1, 0, 0>> :> [passageX |-> "Passable", passageY |-> "Wall", passageZ |-> "Passable", passageW |-> "Wall", pathCount |-> 4] @@
     <<0, 1, 1, 0>> :> [passageX |-> "Wall", passageY |-> "Wall", passageZ |-> "Wall", passageW |-> "Wall", pathCount |-> 5] @@
     <<1, 0, 0, 0>> :> [passageX |-> "Wall", passageY |-> "Passable", passageZ |-> "Wall", passageW |-> "Wall", pathCount |-> 2] @@
     <<1, 0, 1, 0>> :> [passageX |-> "Wall", passageY |-> "Passable", passageZ |-> "Wall", passageW |-> "Wall", pathCount |-> 7] @@
     <<1, 1, 0, 0>> :> [passageX |-> "Wall", passageY |-> "Wall", passageZ |-> "Wall", passageW |-> "Wall", pathCount |-> 3] @@
     <<1, 1, 1, 0>> :> [passageX |-> "Wall", passageY |-> "Passable", passageZ |-> "Wall", passageW |-> "Wall", pathCount |-> 8])

SampleLevelA ==
    [size |-> <<2, 2, 2, 1>>,
     rooms |-> SampleRoomsA,
     lastStep |->
         [from |-> <<1, 0, 1, 0>>, to |-> <<1, 1, 1, 0>>,
          oneWay |-> FALSE, goalReached |-> FALSE, toCount |-> 0, kind |-> "y+"]]

SampleRoomsB ==
    (<<0, 0, 0, 0>> :> [passageX |-> "Wall", passageY |-> "Passable", passageZ |-> "Wall", passageW |-> "Wall", pathCount |-> 1] @@
     <<0, 0, 0, 1>> :> [passageX |-> "Wall", passageY |-> "OneWayForward", passageZ |-> "Passable", passageW |-> "Wall", pathCount |-> 6] @@
     <<0, 0, 1, 0>> :> [passageX |-> "Wall", passageY |-> "Passable", passageZ |-> "Wall", passageW |-> "Passable", pathCount |-> 4] @@
     <<0, 0, 1, 1>> :> [passageX |-> "Wall", passageY |-> "Wall", passageZ |-> "Wall", passageW |-> "Wall", pathCount |-> 5] @@
     <<0, 1, 0, 0>> :> [passageX |-> "Wall", passageY |-> "Wall", passageZ |-> "Passable", passageW |-> "Wall", pathCount |-> 2] @@
     <<0, 1, 0, 1>> :> [passageX |-> "Wall", passageY |-> "Wall", passageZ |-> "Passable", passageW |-> "Wall", pathCount |-> 7] @@
     <<0, 1, 1, 0>> :> [passageX |-> "Wall", passageY |-> "Wall", passageZ |-> "Wall", passageW |-> "Wall", pathCount |-> 3] @@
     <<0, 1, 1, 1>> :> [passageX |-> "Wall", passageY |-> "Passable", passageZ |-> "Wall", passageW |-> "Wall", pathCount |-> 8])

SampleLevelB ==
    [size |-> <<1, 2, 2, 2>>,
     rooms |-> SampleRoomsB,
     lastStep |->
         [from |-> <<0, 1, 0, 1>>, to |-> <<0, 1, 1, 1>>,
          oneWay |-> FALSE, goalReached |-> FALSE, toCount |-> 0, kind |-> "z"]]

SampleLevels == {SampleLevelA, SampleLevelB}

\* NewFieldData has returned the level s: the state after setTiles.
LevelCompiled(s) ==
    /\ size = s.size
    /\ pc = "compiled"
    /\ rooms = s.rooms
    /\ work = [s.rooms EXCEPT ![goalCoord].passageY = passageWall]
    /\ before = InitialRooms
    /\ pos = goalCoord
    /\ count = s.rooms[goalCoord].pathCount
    /\ oneWayExists = TRUE
    /\ mainPath = TRUE
    /\ start = startCoord
    /\ startCount = 1
    /\ failCount = 0
    /\ ret = <<s.rooms>>
    /\ lastStep = s.lastStep
    /\ tiles = CompileTiles(s.rooms)
    /\ setTilesCalls = 1
    /\ attempts = 1

\* The Field on a compiled level; the generator has finished.
FieldInit ==
    /\ \E s \in SampleLevels : LevelCompiled(s)
    /\ SceneIdle
    /\ FieldNone

FieldNext ==
    \/ NewField
    \/ FieldUpdate

FieldSpec == FieldInit /\ [][FieldNext]_vars



(***************************************************************************)
(* Properties of the generator.                                            *)
(***************************************************************************)
IsOneWay(p) == p \in {passageOneWayForward, passageOneWayBackward}

HasOneWay(rms) == \E c \in DOMAIN rms : IsOneWay(rms[c].passageY)

\* a and b are neighbouring rooms joined by a passage that is not Wall,
\* whatever its direction.
Joined(rms, a, b) ==
    \/ /\ b = <<a[1] + 1, a[2], a[3], a[4]>> /\ rms[a].passageX # passageWall
    \/ /\ b = <<a[1], a[2] + 1, a[3], a[4]>> /\ rms[a].passageY # passageWall
    \/ /\ b = <<a[1], a[2], a[3] + 1, a[4]>> /\ rms[a].passageZ # passageWall
    \/ /\ b = <<a[1], a[2], a[3], a[4] + 1>> /\ rms[a].passageW # passageWall

RECURSIVE ConnectedFrom(_, _)
ConnectedFrom(rms, S) ==
    LET S2 == S \cup {b \in DOMAIN rms :
                        \E a \in S : Joined(rms, a, b) \/ Joined(rms, b, a)}
    IN  IF S2 = S THEN S ELSE ConnectedFrom(rms, S2)

\* generateRooms has returned a graph (to NewFieldData, or compiled since).
Returned == pc \in {"returned", "compiled"} /\ ret # <<>>

\* A branch has just been inserted into rooms.
BranchInserted == pc = "branches" /\ ~mainPath /\ failCount = 0

\* C1: in every graph generateRooms returns, the goal room has a non-zero
\* pathCount and every room with a non-zero pathCount is connected to the
\* start room by passages that are not Wall (direction ignored).
C1_Connectivity ==
    Returned =>
        /\ ret[1][goalCoord].pathCount # 0
        /\ VisitedRooms(ret[1]) \subseteq ConnectedFrom(ret[1], {startCoord})

\* A graph with an inserted branch has been returned.
C1_Witness == Returned /\ ~mainPath /\ lastStep.kind # "none"

\* C2 as claimed: at least 80% of all rooms of a returned graph are visited.
C2_EightyPercent ==
    Returned =>
        Cardinality(VisitedRooms(ret[1])) * 10 >= (width * height * depth0 * depth1) * 8

\* C2 amended: a returned graph has at least floor(rooms * 8 / 10) visited
\* rooms.
C2_FloorThreshold ==
    Returned =>
        Cardinality(VisitedRooms(ret[1])) >= ((width * height * depth0 * depth1) * 8) \div 10

\* A returned graph with exactly floor(rooms * 8 / 10) visited rooms.
C2_Witness ==
    /\ Returned
    /\ Cardinality(VisitedRooms(ret[1])) = ((width * height * depth0 * depth1) * 8) \div 10

\* C3: a path is returned only if one of its accepted steps was a one-way
\* y-step, that step set a one-way y-passage, and every graph that holds a
\* returned path (so every graph generateRooms returns) has a one-way passage.
C3_OneWayInEveryPath ==
    /\ [](pc = "branches" => HasOneWay(rooms))
    /\ [](Returned => HasOneWay(ret[1]))
    /\ [][(pc = "path" /\ pc' = "branches" /\ failCount' = 0) => oneWayExists']_vars
    /\ [][(pc = "path" /\ ~oneWayExists /\ oneWayExists') =>
            /\ lastStep'.oneWay
            /\ lastStep'.kind \in {"y+", "y-"}
            /\ IsOneWay(work'[YPassageRoom(lastStep'.from, lastStep'.to,
                                           lastStep'.to[3])].passageY)]_vars

\* A branch was inserted, so its path was returned by tryAddPathWithOneWay.
C3_Witness == BranchInserted /\ lastStep.kind # "none" /\ oneWayExists

\* C4: the terminating step of a branch enters a room T that is not the
\* origin O, had a non-zero pathCount before the step, and has
\* pathCount(O) > floor(pathCount(T) * 5 / 4).
C4_BranchEnd ==
    [][(pc = "path" /\ ~mainPath /\ pc' \in {"branches", "returned"}
        /\ lastStep' # NoStep) =>
            /\ lastStep'.goalReached
            /\ lastStep'.to # start
            /\ lastStep'.toCount # 0
            /\ work[start].pathCount = startCount
            /\ work[start].pathCount > (lastStep'.toCount * 5) \div 4]_vars

\* A branch was inserted whose end is not the start room.
C4_Witness == BranchInserted /\ lastStep.goalReached /\ lastStep.toCount > 1

\* C5: within one generateRooms call a one-way y-passage of the graph keeps
\* its state, and no accepted y-step crosses a one-way passage of its layer
\* against its direction.
C5_OneWayPermanent ==
    /\ [][(pc \in {"path", "branches"}) =>
            \A c \in Coords : IsOneWay(rooms[c].passageY)
                                => rooms'[c].passageY = rooms[c].passageY]_vars
    /\ [][(pc = "path") =>
            \A c \in Coords : IsOneWay(work[c].passageY)
                                => work'[c].passageY = work[c].passageY]_vars
    /\ [][(pc = "path" /\ count' = count + 1 /\ lastStep'.kind \in {"y+", "y-"}) =>
            work[YPassageRoom(lastStep'.from, lastStep'.to, lastStep'.to[3])].passageY
                # Opposing(lastStep'.from, lastStep'.to)]_vars

\* The path loop stands in a room from which a y-move would cross a one-way
\* passage against its direction.
C5_Witness ==
    /\ pc = "path"
    /\ \E d \in {6, 9} : /\ InBounds(pos, d)
                         /\ Conflicted(work, pos, NextCoord(pos, d))

\* C7 as claimed: after initialisation the start room has pathCount 1.
C7_StartPathCount ==
    /\ (pc \in {"path", "branches"} => rooms[startCoord].pathCount = 1)
    /\ (Returned => ret[1][startCoord].pathCount = 1)

C6_OneWayAnyLayer ==
    pc = "compiled" =>
        \A t \in DOMAIN tiles : \A z \in Layers0, w \in Layers1 :
            /\ tiles[t].upward =>
                 \A prevY \in (t[2] + 1)..(tilesHeight - 1) :
                     ~passable(tiles, t[1], t[2], prevY, z, w)
            /\ tiles[t].downward =>
                 \A prevY \in 0..(t[2] - 1) :
                     ~passable(tiles, t[1], t[2], prevY, z, w)

\* The ladder tiles of room c: the column of its w-layer, three rows.
LadderTiles(c) ==
    {<<LadderX(c[1], c[2], c[4]), y>> : y \in FloorY(c[2])..(FloorY(c[2]) + roomYGridCount - 1)}

\* C6 amended: the one-way flag of a tile is honoured for the layers (z, w)
\* under which the tile's ladder is usable, so the ladder of a passage that is
\* OneWayForward (OneWayBackward) in layer (z, w) is never entered with
\* decreasing (increasing) y while (z, w) is active.
C6_OneWayUsableLayer ==
    pc = "compiled" =>
        /\ \A t \in DOMAIN tiles : \A z \in Layers0, w \in Layers1 :
              LadderUsable(tiles[t], z, w) =>
                /\ tiles[t].upward =>
                     \A prevY \in (t[2] + 1)..(tilesHeight - 1) :
                         ~passable(tiles, t[1], t[2], prevY, z, w)
                /\ tiles[t].downward =>
                     \A prevY \in 0..(t[2] - 1) :
                         ~passable(tiles, t[1], t[2], prevY, z, w)
        /\ \A c \in Coords : \A t \in LadderTiles(c) :
              /\ ret[1][c].passageY = passageOneWayForward =>
                   /\ tiles[t].upward /\ LadderUsable(tiles[t], c[3], c[4])
                   /\ \A prevY \in (t[2] + 1)..(tilesHeight - 1) :
                         ~passable(tiles, t[1], t[2], prevY, c[3], c[4])
              /\ (ret[1][c].passageY = passageOneWayBackward /\ c[2] < height - 1) =>
                   /\ tiles[t].downward /\ LadderUsable(tiles[t], c[3], c[4])
                   /\ \A prevY \in 0..(t[2] - 1) :
                         ~passable(tiles, t[1], t[2], prevY, c[3], c[4])

\* A compiled grid with a one-way-up ladder that is usable in one z-layer
\* and not in the other.
C6_Witness ==
    /\ pc = "compiled"
    /\ \E t \in DOMAIN tiles : \E z1 \in Layers0, z2 \in Layers0, w \in Layers1 :
          /\ tiles[t].upward
          /\ LadderUsable(tiles[t], z1, w)
          /\ ~LadderUsable(tiles[t], z2, w)

\* C8: NewFieldData calls generateRooms again after every nil result and
\* calls setTiles once, with a returned graph that meets the generator's
\* success conditions.
C8_RetryUntilSuccess ==
    /\ [](setTilesCalls <= 1)
    /\ [](pc \in {"new", "path", "branches", "returned"} => setTilesCalls = 0)
    /\ [](pc = "compiled" =>
            /\ setTilesCalls = 1
            /\ ret # <<>>
            /\ tiles = CompileTiles(ret[1])
            /\ areEnoughRoomsVisited(ret[1])
            /\ HasOneWay(ret[1])
            /\ ret[1][goalCoord].pathCount # 0)
    /\ [][(pc = "returned" /\ ret = <<>>) =>
            /\ pc' = "path"
            /\ mainPath'
            /\ work' = InitialRooms
            /\ setTilesCalls' = setTilesCalls]_vars

\* A graph was compiled after an earlier generateRooms call had failed.
C8_Witness == pc = "compiled" /\ attempts >= 2

(***************************************************************************)
(* Properties of the GameScene handoff.                                    *)
(***************************************************************************)
\* C10: no step of Update waits, and a tick that starts with a nil field and
\* finds no sender at its select leaves the field nil and does not call
\* Field.Update.
C10_UpdateNeverBlocks ==
    /\ (tpc = "idle" => ENABLED UpdateBegin)
    /\ (tpc = "select" => ENABLED UpdateSelect)
    /\ (tpc = "tail" => ENABLED UpdateEnd)
    /\ (tpc \in {"idle", "tail"} /\ tickLog.fieldBefore = "nil" /\ ~tickLog.ready
            => field = "nil" /\ ~tickLog.updated)

\* A tick has run to its end while the goroutine was still generating.
C10_Witness ==
    /\ tpc = "idle"
    /\ gpc \in {"NewField", "timer"}
    /\ tickLog.fieldBefore = "nil"
    /\ ~tickLog.spawned
    /\ field = "nil"

\* C11: the generated Field is handed over once: at most one generation
\* goroutine is ever started for a GameScene, and once g.field holds the
\* generated Field no step sets it back to nil.
C11_HandoverOnce ==
    /\ [](started <= 1)
    /\ [][field = "F" => field' = "F"]_vars

(***************************************************************************)
(* Properties of the Field.                                                *)
(***************************************************************************)
\* The Field is at rest: no animation in progress and the goal not reached.
AtRest == fieldMade /\ ~goalReached /\ dx = 0 /\ dy = 0

\* An animation is in progress.
Animating == fieldMade /\ ~goalReached /\ (dx # 0 \/ dy # 0)

\* C12: a tick of an agent at rest makes the offset non-zero only if passable
\* holds for the destination tile the keys request, from the current tile
\* and under the active layers (the z-layer as it is after the tick's switch
\* test); when passable does not hold, the tick changes neither the position
\* nor the offset.
C12_MoveOnlyIfPassable ==
    [][AtRest =>
          LET ok == passable(tiles, nextXOf(keys'), nextYOf(keys'), playerY,
                             currentDepth', currentW')
          IN  /\ (dx' # 0 \/ dy' # 0) => ok
              /\ ~ok => /\ dx' = 0 /\ dy' = 0
                        /\ playerX' = playerX /\ playerY' = playerY
              /\ playerX' = playerX /\ playerY' = playerY]_vars

\* A tick has toggled the z-layer on a switch tile and started a move that
\* passable accepts under the new z-layer only.
C12_Witness ==
    /\ fieldMade
    /\ ~goalReached
    /\ animTicks = 0
    /\ keys.space
    /\ dx # 0 \/ dy # 0
    /\ passable(tiles, nextXOf(keys), nextYOf(keys), playerY, currentDepth, currentW)
    /\ ~passable(tiles, nextXOf(keys), nextYOf(keys), playerY,
                 (currentDepth + 1) % depth0, currentW)

\* The direction of an offset: -1, 0 or 1.
Sign(d) == IF d > 0 THEN 1 ELSE IF d < 0 THEN -1 ELSE 0

\* C13: a tick during an animation leaves the active layers alone whatever
\* the keys are and moves each non-zero offset by 3 in its direction; on the
\* 5th such tick after the accepting tick, when the offset has reached one
\* tile width (16), the position changes by one tile per animated axis in
\* that direction and the offset returns to zero.  The position of a Field
\* changes in no other step.
C13_AnimationTick ==
    /\ [][Animating =>
            /\ currentDepth' = currentDepth
            /\ currentW' = currentW
            /\ animTicks' = animTicks + 1
            /\ IF animTicks' < 5
               THEN /\ dx' = dx + v * Sign(dx)
                    /\ dy' = dy + v * Sign(dy)
                    /\ dx' \in (1 - GridSize)..(GridSize - 1)
                    /\ dy' \in (1 - GridSize)..(GridSize - 1)
                    /\ playerX' = playerX
                    /\ playerY' = playerY
               ELSE /\ dx # 0 => dx + v * Sign(dx) \notin (1 - GridSize)..(GridSize - 1)
                    /\ dy # 0 => dy + v * Sign(dy) \notin (1 - GridSize)..(GridSize - 1)
                    /\ dx' = 0
                    /\ dy' = 0
                    /\ playerX' = playerX + Sign(dx)
                    /\ playerY' = playerY + Sign(dy)]_vars
    /\ [][fieldMade /\ (playerX' # playerX \/ playerY' # playerY)
            => Animating /\ animTicks = 4]_vars

\* The agent has just arrived on a tile of another row.
C13_Witness ==
    /\ fieldMade
    /\ animTicks = 5
    /\ dx = 0
    /\ dy = 0
    /\ playerY # 1

\* C14: goalReached becomes true exactly in an animation tick after which the
\* agent's tile carries the goal flag, and from then on no Update changes
\* position, offset, active layers or goalReached, whatever the keys are.
C14_GoalTerminal ==
    /\ [][Animating => (goalReached' <=> tiles[<<playerX', playerY'>>].goal)]_vars
    /\ [][~goalReached /\ goalReached' => Animating]_vars
    /\ [][goalReached =>
            UNCHANGED <<playerX, playerY, dx, dy, currentDepth, currentW,
                        goalReached>>]_vars

\* The agent has arrived on the goal tile.
C14_Witness ==
    /\ fieldMade
    /\ goalReached
    /\ tiles[<<playerX, playerY>>].goal
    /\ animTicks = 5
    /\ dx = 0
    /\ dy = 0

\* C15: a tick of an agent at rest with the toggle key changes the active
\* z-layer to (z + 1) mod depth0 exactly when the agent's tile has the switch
\* flag of the active w-layer, and leaves it unchanged otherwise (as does a
\* tick without the toggle key); the z-layer stays in 0..depth0-1, and with
\* depth0 = 2 a successful toggle turns 0 into 1 and 1 into 0.
C15_ToggleOnSwitch ==
    /\ [](currentDepth \in Layers0)
    /\ [][AtRest =>
            LET toggles == keys'.space /\ tiles[<<playerX, playerY>>].switches[currentW]
            IN  /\ toggles => currentDepth' = (currentDepth + 1) % depth0
                /\ toggles /\ depth0 = 2 => currentDepth' = 1 - currentDepth
                /\ ~toggles => currentDepth' = currentDepth]_vars

\* The last tick has toggled the z-layer back to 0 on a switch tile.
C15_Witness ==
    /\ AtRest
    /\ keys.space
    /\ tiles[<<playerX, playerY>>].switches[currentW]
    /\ currentDepth = 0

(***************************************************************************)
(* Properties of the passability queries, on every compiled tile grid.     *)
(***************************************************************************)
\* The tile has a ladder for layer w that is colourless or coloured z + 1.
LadderFor(t, z, w) ==
    t.ladders[w] /\ t.ladderColors[w] \in {0, z + 1}

\* The tile has a wall for layer w whose colour names a z-layer other than z.
WallPinnedElsewhere(t, z, w) ==
    t.walls[w] /\ t.wallColors[w] # 0 /\ t.wallColors[w] # z + 1

\* C16 as stated: canBeInTile is false for a wall whose colour pins it to a
\* z-layer other than the current one, true for a compatible ladder, and true
\* in every other case.
C16_CanOccupyAsStated ==
    pc = "compiled" =>
        \A t \in DOMAIN tiles : \A z \in Layers0, w \in Layers1 :
            LET r == canBeInTile(tiles, t[1], t[2], z, w)
            IN  /\ LadderFor(tiles[t], z, w) => r
                /\ ~LadderFor(tiles[t], z, w) =>
                       (r <=> ~WallPinnedElsewhere(tiles[t], z, w))

\* C16 (amended): canBeInTile for a tile of the grid and layers (z, w) is
\* true if the tile has a ladder for w compatible with z; otherwise false if
\* it has a wall for w that is colourless or coloured for another z-layer;
\* and true otherwise.  A wall coloured for z = 1, without such a ladder, can
\* be occupied only when the active z-layer is 1.
C16_CanBeInTile ==
    pc = "compiled" =>
        \A t \in DOMAIN tiles : \A z \in Layers0, w \in Layers1 :
            LET r == canBeInTile(tiles, t[1], t[2], z, w)
                solid == tiles[t].walls[w]
                         /\ (tiles[t].wallColors[w] = 0
                             \/ WallPinnedElsewhere(tiles[t], z, w))
            IN  /\ LadderFor(tiles[t], z, w) => r
                /\ ~LadderFor(tiles[t], z, w) => (r <=> ~solid)
                /\ (tiles[t].walls[w] /\ tiles[t].wallColors[w] = 2
                    /\ ~LadderFor(tiles[t], z, w)) => (r <=> z = 1)

\* A grid with a wall coloured for z = 1, a plain wall carrying a usable
\* ladder, and a plain wall without one.
C16_Witness ==
    /\ pc = "compiled"
    /\ \E t \in DOMAIN tiles : \E w \in Layers1 :
          tiles[t].walls[w] /\ tiles[t].wallColors[w] = 2
    /\ \E t \in DOMAIN tiles : \E w \in Layers1 :
          /\ tiles[t].walls[w] /\ tiles[t].wallColors[w] = 0
          /\ LadderFor(tiles[t], 0, w)
          /\ canBeInTile(tiles, t[1], t[2], 0, w)
    /\ \E t \in DOMAIN tiles : \E w \in Layers1 :
          /\ tiles[t].walls[w] /\ tiles[t].wallColors[w] = 0
          /\ ~tiles[t].ladders[w]
          /\ ~canBeInTile(tiles, t[1], t[2], 0, w)

\* C17: canStandOnTile for a tile of the grid and layers (z, w) is true
\* exactly when the tile is a ladder for w compatible with z, or a wall for w
\* that is colourless or coloured for a z-layer other than z; it is false for
\* open tiles and for walls coloured for the current z-layer.
C17_CanStandOnTile ==
    pc = "compiled" =>
        \A t \in DOMAIN tiles : \A z \in Layers0, w \in Layers1 :
            LET r == canStandOnTile(tiles, t[1], t[2], z, w)
            IN  /\ r <=> \/ LadderFor(tiles[t], z, w)
                         \/ tiles[t].walls[w] /\ tiles[t].wallColors[w] = 0
                         \/ WallPinnedElsewhere(tiles[t], z, w)
                /\ (~tiles[t].walls[w] /\ ~tiles[t].ladders[w]) => ~r
                /\ (tiles[t].walls[w] /\ tiles[t].wallColors[w] = z + 1
                    /\ ~LadderFor(tiles[t], z, w)) => ~r

\* A grid with a wall coloured for one z-layer: it carries the agent in the
\* other z-layer only; and with a ladder top that carries the agent.
C17_Witness ==
    /\ pc = "compiled"
    /\ \E t \in DOMAIN tiles : \E z \in Layers0, w \in Layers1 :
          /\ tiles[t].walls[w]
          /\ tiles[t].wallColors[w] = z + 1
          /\ ~canStandOnTile(tiles, t[1], t[2], z, w)
          /\ canStandOnTile(tiles, t[1], t[2], 1 - z, w)
    /\ \E t \in DOMAIN tiles : \E z \in Layers0, w \in Layers1 :
          /\ ~tiles[t].walls[w]
          /\ LadderFor(tiles[t], z, w)
          /\ canStandOnTile(tiles, t[1], t[2], z, w)

\* C18: for a tile of the grid, canGoUp is false only if the tile has a
\* ladder for the active w-layer that is colourless or coloured for the
\* active z-layer and the tile is flagged one-way-down, and true in every
\* other case; canGoDown likewise with the one-way-up flag.
C18_CanGoUpDown ==
    pc = "compiled" =>
        \A t \in DOMAIN tiles : \A z \in Layers0, w \in Layers1 :
            /\ canGoUp(tiles, t[1], t[2], z, w)
                   <=> ~(LadderFor(tiles[t], z, w) /\ tiles[t].downward)
            /\ canGoDown(tiles, t[1], t[2], z, w)
                   <=> ~(LadderFor(tiles[t], z, w) /\ tiles[t].upward)

\* A grid with a one-way-down ladder coloured for one z-layer: canGoUp
\* refuses its tiles in that z-layer and accepts them in the other.
C18_Witness ==
    /\ pc = "compiled"
    /\ \E t \in DOMAIN tiles : \E z \in Layers0, w \in Layers1 :
          /\ tiles[t].downward
          /\ ~canGoUp(tiles, t[1], t[2], z, w)
          /\ canGoUp(tiles, t[1], t[2], 1 - z, w)
          /\ canGoDown(tiles, t[1], t[2], z, w)

\* The coordinates the queries are examined on: the grid and a margin.
QueryXs == (0 - Margin)..(tilesWidth - 1 + Margin)
QueryYs == (0 - Margin)..(tilesHeight - 1 + Margin)

\* C19: passable(nextX, nextY, prevY, z, w) holds exactly when canBeInTile
\* holds for the destination, canStandOnTile holds for the tile directly
\* below it, canGoUp holds for the destination if the move increases y, and
\* canGoDown if it decreases y; a move that keeps y has no direction test.
C19_Passable ==
    pc = "compiled" =>
        \A x \in QueryXs, y \in QueryYs : \A z \in Layers0, w \in Layers1 :
            \A prevY \in {y - 1, y, y + 1} :
                passable(tiles, x, y, prevY, z, w) <=>
                    /\ canBeInTile(tiles, x, y, z, w)
                    /\ canStandOnTile(tiles, x, y - 1, z, w)
                    /\ prevY < y => canGoUp(tiles, x, y, z, w)
                    /\ prevY > y => canGoDown(tiles, x, y, z, w)

\* A grid with a destination passable refuses from below only, and one it
\* refuses from above only.
C19_Witness ==
    /\ pc = "compiled"
    /\ \E t \in DOMAIN tiles : \E z \in Layers0, w \in Layers1 :
          /\ ~passable(tiles, t[1], t[2], t[2] - 1, z, w)
          /\ passable(tiles, t[1], t[2], t[2], z, w)
          /\ passable(tiles, t[1], t[2], t[2] + 1, z, w)
    /\ \E t \in DOMAIN tiles : \E z \in Layers0, w \in Layers1 :
          /\ passable(tiles, t[1], t[2], t[2] - 1, z, w)
          /\ passable(tiles, t[1], t[2], t[2], z, w)
          /\ ~passable(tiles, t[1], t[2], t[2] + 1, z, w)

\* C20: on a coordinate outside the tile grid passable, canBeInTile,
\* canStandOnTile, canGoUp and canGoDown are all false, for every layer
\* selection; passable is false as well when the tile below the destination
\* is outside the grid.
C20_OffGridFalse ==
    pc = "compiled" =>
        \A x \in QueryXs, y \in QueryYs : \A z \in Layers0, w \in Layers1 :
            /\ <<x, y>> \notin TileCoords =>
                  /\ ~canBeInTile(tiles, x, y, z, w)
                  /\ ~canStandOnTile(tiles, x, y, z, w)
                  /\ ~canGoUp(tiles, x, y, z, w)
                  /\ ~canGoDown(tiles, x, y, z, w)
                  /\ \A prevY \in {y - 1, y, y + 1} : ~passable(tiles, x, y, prevY, z, w)
            /\ <<x, y - 1>> \notin TileCoords =>
                  \A prevY \in {y - 1, y, y + 1} : ~passable(tiles, x, y, prevY, z, w)

\* A grid whose last row has a tile the agent can occupy and stand in: the
\* move up from it leaves the grid and is refused.
C20_Witness ==
    /\ pc = "compiled"
    /\ \E x \in 0..(tilesWidth - 1) : \E z \in Layers0, w \in Layers1 :
          /\ passable(tiles, x, tilesHeight - 1, tilesHeight - 1, z, w)
          /\ ~passable(tiles, x, tilesHeight, tilesHeight - 1, z, w)


(***************************************************************************)
(* The compiled grid: goal tile and perimeter.                             *)
(***************************************************************************)
GoalTiles == {t \in DOMAIN tiles : tiles[t].goal}

\* C21: in every compiled tile grid exactly one tile carries the goal flag;
\* it lies in the last row (row height*roomYGridCount+1) at column
\* (width-1)*roomXGridCount.
C21_OneGoalTile ==
    pc = "compiled" =>
        GoalTiles = {<<(width - 1) * roomXGridCount, height * roomYGridCount + 1>>}

C21_Witness ==
    /\ pc = "compiled"
    /\ tiles[<<(width - 1) * roomXGridCount, height * roomYGridCount + 1>>].goal
    /\ Cardinality(GoalTiles) = 1

WallInEveryLayer(t) == \A w \in Layers1 : tiles[t].walls[w]

LastRowInner == {t \in TileCoords : t[2] = tilesHeight - 1
                                    /\ t[1] \notin {0, tilesWidth - 1}}

\* C22 as stated: every tile of the first row, the last row, the first column
\* and the last column of a compiled grid is a wall in every w-layer.
C22_PerimeterAllWall ==
    pc = "compiled" =>
        \A t \in TileCoords :
            (t[1] \in {0, tilesWidth - 1} \/ t[2] \in {0, tilesHeight - 1})
                => WallInEveryLayer(t)

\* C22: every tile of the first row, the first column and the last column of
\* a compiled grid is a wall in every w-layer; of the last row only the two
\* corner tiles are walls, the tiles between them are a wall in no w-layer.
C22_PerimeterButLastRow ==
    pc = "compiled" =>
        /\ \A t \in TileCoords :
               (t[1] \in {0, tilesWidth - 1} \/ t[2] = 0) => WallInEveryLayer(t)
        /\ \A t \in LastRowInner : \A w \in Layers1 : ~tiles[t].walls[w]

C22_Witness ==
    /\ pc = "compiled"
    /\ WallInEveryLayer(<<tilesWidth - 1, tilesHeight - 1>>)
    /\ WallInEveryLayer(<<tilesWidth - 1, 1>>)
    /\ \E t \in LastRowInner : ~tiles[t].walls[0]

SwitchTiles(w) == {t \in DOMAIN tiles : tiles[t].switches[w]}

\* C23: every level NewFieldData produces with depth0 > 1 holds at least one
\* switch tile: the main path holds a z-transition and its room gets a switch.
C23_SwitchExists ==
    /\ (pc = "compiled" /\ depth0 > 1) => \E w \in Layers1 : SwitchTiles(w) # {}
    /\ (pc = "branches" /\ depth0 > 1) =>
           \E c \in DOMAIN rooms : c[3] = 0 /\ rooms[c].passageZ = passagePassable

C23_Witness ==
    /\ pc = "compiled"
    /\ depth0 > 1
    /\ depth1 = 2
    /\ SwitchTiles(1) # {}
    /\ \E c \in DOMAIN ret[1] : c[3] = 0 /\ ret[1][c].passageZ = passagePassable

(***************************************************************************)
(* pathCount.                                                              *)
(***************************************************************************)
\* C24 as stated: within one generation attempt a pathCount that is not zero
\* is never changed again, neither by a later step of the path nor by the
\* terminating step of a branch that ends in that room.
C24_PathCountFrozen ==
    [][(pc \in {"path", "branches"} /\ pc' # "panic") =>
          \A c \in DOMAIN rooms :
              rooms[c].pathCount # 0 => rooms'[c].pathCount = rooms[c].pathCount]_vars

(***************************************************************************)
(* The forced passage of the goal room.                                    *)
(***************************************************************************)
\* The main path has just returned its graph to generateRooms.
MainPathDone == pc = "path" /\ mainPath /\ pc' = "branches"

\* The room under the goal room, in the goal's z- and w-layer.
BelowGoal == <<goalCoord[1], goalCoord[2] - 1, goalCoord[3], goalCoord[4]>>

\* C25 as stated: when the main path has reached the goal, the y-passage that
\* joins the goal room to the room beneath it is forced to Passable.
C25_PassageBelowGoal ==
    [][MainPathDone => rooms'[BelowGoal].passageY = passagePassable]_vars

\* C25: when the main path has reached the goal, generateRooms forces the goal
\* room's own y-passage (the one on its +y side, which leaves the room grid
\* towards the row of the goal tile) to Passable and changes nothing else;
\* the passage between the goal room and the room under it stays as the path
\* made it.
C25_GoalRoomPassage ==
    [][MainPathDone =>
          /\ rooms'[goalCoord].passageY = passagePassable
          /\ \A c \in DOMAIN rooms' :
                 /\ c # goalCoord => rooms'[c] = work'[c]
                 /\ c = goalCoord =>
                        rooms'[c] = [work'[c] EXCEPT !.passageY = passagePassable]]_vars

C25_Witness ==
    /\ pc = "branches"
    /\ mainPath
    /\ lastStep.to = goalCoord
    /\ work[goalCoord].passageY = passageWall
    /\ rooms[goalCoord].passageY = passagePassable
    /\ rooms[BelowGoal].passageY = passageWall

(***************************************************************************)
(* Uniform y-passages across the z-layers.                                 *)
(***************************************************************************)
\* The z-layers of position (x, y, w) whose y-passage is not Wall.
OpenLayers(rms, x, y, w) ==
    {z \in Layers0 : rms[<<x, y, z, w>>].passageY # passageWall}

Uniform(rms) ==
    \A c1 \in DOMAIN rms, c2 \in DOMAIN rms :
        (/\ c1[1] = c2[1] /\ c1[2] = c2[2] /\ c1[4] = c2[4]
         /\ rms[c1].passageY # passageWall
         /\ rms[c2].passageY # passageWall)
            => rms[c1].passageY = rms[c2].passageY

\* C26: at every moment of a generation attempt, for each position (x, y) and
\* w-layer, the z-layers whose y-passage is not Wall hold the same state (in
\* the clone being written, in generateRooms' graph and in the graph
\* returned); no panic("not reached") of the y-passage assignment or of the
\* ladder compilation is reached.
C26_UniformYPassages ==
    /\ Uniform(work)
    /\ Uniform(rooms)
    /\ ret # <<>> => (Uniform(ret[1]) /\ ~LadderPanics(ret[1]))
    /\ pc # "panic"

C26_Witness ==
    /\ pc = "path"
    /\ lastStep.kind \in {"y+", "y-"}
    /\ \E c \in DOMAIN work :
           /\ Cardinality(OpenLayers(work, c[1], c[2], c[4])) = 2
           /\ IsOneWay(work[c].passageY)
           /\ YPassageRoom(lastStep.from, lastStep.to, lastStep.to[3]) = c
           /\ before[c].passageY = passageWall

(***************************************************************************)
(* The decision of a y-direction step.                                     *)
(***************************************************************************)
\* An iteration of the path loop has accepted a y-direction step.
YStepAccepted ==
    pc = "path" /\ count' = count + 1 /\ lastStep'.kind \in {"y+", "y-"}

\* The y-passage states of the z-layers at the position of the step that
\* lastStep' records, before the step.
SiblingStates ==
    {work[YPassageRoom(lastStep'.from, lastStep'.to, z)].passageY : z \in Layers0}

\* C27: for every accepted y-direction step: if the y-passage of every
\* z-layer at the position is Wall, the step is made one-way in the direction
\* of travel or Passable; if some layer is not Wall and every non-Wall layer
\* is one-way in the direction of travel, the step is made one-way in that
\* direction; if some layer is Passable, the step is made Passable; and no
\* accepted step has a z-layer with a one-way passage against it.
C27_YStepDecision ==
    [][YStepAccepted =>
          LET up == lastStep'.kind = "y+"
              along == IF up THEN passageOneWayForward ELSE passageOneWayBackward
              against == IF up THEN passageOneWayBackward ELSE passageOneWayForward
              written == YPassageRoom(lastStep'.from, lastStep'.to, lastStep'.to[3])
              made == work'[written].passageY
          IN  /\ against \notin SiblingStates
              /\ SiblingStates = {passageWall} => made \in {along, passagePassable}
              /\ (SiblingStates # {passageWall}
                  /\ SiblingStates \subseteq {passageWall, along}) => made = along
              /\ passagePassable \in SiblingStates => made = passagePassable
              /\ lastStep'.oneWay <=> made = along
              /\ \A c \in DOMAIN work : c # written => work'[c].passageY = work[c].passageY
      ]_vars

\* A step has been made one-way because the other z-layer was one-way.
C27_Witness ==
    /\ pc = "path"
    /\ lastStep.kind = "y-"
    /\ lastStep.oneWay
    /\ \E z \in Layers0 :
           /\ z # lastStep.to[3]
           /\ work[YPassageRoom(lastStep.from, lastStep.to, z)].passageY =
                  passageOneWayBackward
    /\ work[YPassageRoom(lastStep.from, lastStep.to, lastStep.to[3])].passageY =
           passageOneWayBackward

(***************************************************************************)
(* The visited check of a z- or w-transition.                              *)
(***************************************************************************)
\* Some layer at the destination x, y, along the axis of the transition and
\* other than the layer being departed, has a non-zero pathCount.
OtherLayerVisited(rms, orig, next) ==
    IF orig[3] # next[3]
    THEN \E z \in Layers0 :
            z # orig[3] /\ rms[<<next[1], next[2], z, next[4]>>].pathCount # 0
    ELSE \E w \in Layers1 :
            w # orig[4] /\ rms[<<next[1], next[2], next[3], w>>].pathCount # 0

StepAccepted == pc = "path" /\ count' = count + 1

\* The pathCount the step that lastStep' records gives to room c: the
\* running counter plus 1 for the destination of an ordinary step, the
\* running counter plus the layer distance for the sibling layers of the
\* destination of a transition; 0 stands for "not stamped".
Stamp(c) ==
    LET f == lastStep'.from
        t == lastStep'.to
        k == lastStep'.kind
    IN  IF k = "z" /\ c[1] = t[1] /\ c[2] = t[2] /\ c[4] = t[4]
        THEN count + abs(c[3] - f[3])
        ELSE IF k = "w" /\ c[1] = t[1] /\ c[2] = t[2] /\ c[3] = t[3]
        THEN count + abs(c[4] - f[4])
        ELSE IF k \in {"x+", "x-", "y+", "y-"} /\ c = t
        THEN count + 1
        ELSE 0

\* Every accepted step writes the pathCounts Stamp names and no other.
StampedAsCounted ==
    [][StepAccepted =>
          \A c \in DOMAIN work :
              work'[c].pathCount =
                  IF Stamp(c) # 0 THEN Stamp(c) ELSE work[c].pathCount]_vars

\* At the start of a step the pathCount of the current room is the counter.
CurrentIsCounter == pc = "path" => work[pos].pathCount = count

\* C29: along one walk of tryAddPathWithOneWay an ordinary accepted step
\* stamps its destination with the running counter plus 1, an accepted z- or
\* w-transition stamps every sibling layer at the destination x, y with the
\* counter plus its distance from the departed layer, the counter grows by 1
\* with every step, and at the start of each step the pathCount of the
\* current room is the running counter.
C29_Monotone == StampedAsCounted /\ []CurrentIsCounter

\* A transition has stamped the layer it departed from and the layer it
\* arrived in, and the walk goes on from there.
C29_Witness ==
    /\ pc = "path"
    /\ lastStep.kind = "w"
    /\ work[lastStep.to].pathCount = count
    /\ work[lastStep.from].pathCount = count - 1
    /\ pos = lastStep.to
    /\ count > 3

(***************************************************************************)
(* The wall column on the x-border of a room.                              *)
(***************************************************************************)
\* The column in which setTilesForRoom puts the wall of layer w of room
\* (roomX, roomY): x+w, or x+(depth1-1) for every layer when every layer has
\* a plain wall.
BorderX(rms, roomX, roomY, w) ==
    IF allNonColorWall(rms, roomX, roomY)
    THEN WallX(roomX) + (depth1 - 1)
    ELSE WallX(roomX) + w

BorderYs(roomY) == FloorY(roomY)..(FloorY(roomY) + roomYGridCount - 2)

XWall(rms, roomX, roomY, z, w) == rms[<<roomX, roomY, z, w>>].passageX = passageWall

\* C30: for every room and w-layer the wall column on the x-border is a plain
\* wall (colour 0) when the x-passage is Wall in both z-layers, a wall with
\* the colour (index + 1) of the z-layer that is not Wall when exactly one
\* z-layer is Wall, and no wall when no z-layer is Wall; an agent with active
\* layers (z, w) can be in the tiles of that column iff the x-passage of the
\* room in layer (z, w) is not Wall.
C30_BorderColumn ==
    pc = "compiled" =>
        \A r \in RoomCells : \A w \in Layers1 : \A y \in BorderYs(r[2]) :
            LET g == ret[1]
                t == tiles[<<BorderX(g, r[1], r[2], w), y>>]
                x0 == XWall(g, r[1], r[2], 0, w)
                x1 == XWall(g, r[1], r[2], 1, w)
            IN  /\ (x0 /\ x1) => (t.walls[w] /\ t.wallColors[w] = 0)
                /\ (~x0 /\ x1) => (t.walls[w] /\ t.wallColors[w] = 1)
                /\ (x0 /\ ~x1) => (t.walls[w] /\ t.wallColors[w] = 2)
                /\ (~x0 /\ ~x1) => ~t.walls[w]
                /\ \A z \in Layers0 :
                       canBeInTile(tiles, BorderX(g, r[1], r[2], w), y, z, w)
                           <=> ~XWall(g, r[1], r[2], z, w)

\* A room with two w-layers whose wall is plain in one w-layer and coloured
\* in the other, and a room whose border is open in both z-layers.
C30_Witness ==
    /\ pc = "compiled"
    /\ depth1 = 2
    /\ LET g == ret[1]
       IN  /\ \E r \in RoomCells :
                  /\ XWall(g, r[1], r[2], 0, 0) /\ XWall(g, r[1], r[2], 1, 0)
                  /\ ~XWall(g, r[1], r[2], 0, 1) /\ XWall(g, r[1], r[2], 1, 1)
                  /\ tiles[<<WallX(r[1]), FloorY(r[2])>>].walls[0]
                  /\ tiles[<<WallX(r[1]) + 1, FloorY(r[2])>>].wallColors[1] = 1
           /\ \E r \in RoomCells :
                  /\ ~XWall(g, r[1], r[2], 0, 0) /\ ~XWall(g, r[1], r[2], 1, 0)
                  /\ canBeInTile(tiles, WallX(r[1]), FloorY(r[2]), 1, 0)

(***************************************************************************)
(* The ladder of a room.                                                   *)
(***************************************************************************)
LadderYs(roomY) == FloorY(roomY)..(FloorY(roomY) + roomYGridCount - 1)

YOpen(rms, roomX, roomY, z, w) == rms[<<roomX, roomY, z, w>>].passageY # passageWall

\* The y-passage states of the z-layers of (roomX, roomY, w) that are not Wall.
YStates(rms, roomX, roomY, w) ==
    {rms[<<roomX, roomY, z, w>>].passageY : z \in Layers0} \ {passageWall}

\* C31: for every room and w-layer, ladder tiles are compiled iff the
\* y-passage of some z-layer is not Wall; the ladder has no colour when no
\* z-layer is Wall and otherwise the colour (index + 1) of the z-layer that
\* is not Wall; its tiles are flagged upward iff the passage is OneWayForward
\* and downward iff it is OneWayBackward; no tile is flagged both; and no
\* other tile holds a ladder.
C31_Ladders ==
    pc = "compiled" =>
        LET g == ret[1]
        IN  /\ \A r \in RoomCells : \A w \in Layers1 : \A y \in LadderYs(r[2]) :
                   LET t == tiles[<<LadderX(r[1], r[2], w), y>>]
                       y0 == YOpen(g, r[1], r[2], 0, w)
                       y1 == YOpen(g, r[1], r[2], 1, w)
                   IN  /\ t.ladders[w] <=> (y0 \/ y1)
                       /\ (y0 /\ y1) => t.ladderColors[w] = 0
                       /\ (y0 /\ ~y1) => t.ladderColors[w] = 1
                       /\ (~y0 /\ y1) => t.ladderColors[w] = 2
                       /\ t.upward <=> passageOneWayForward \in YStates(g, r[1], r[2], w)
                       /\ t.downward <=> passageOneWayBackward \in YStates(g, r[1], r[2], w)
            /\ \A t \in DOMAIN tiles :
                   /\ ~(tiles[t].upward /\ tiles[t].downward)
                   /\ \A w \in Layers1 :
                          tiles[t].ladders[w] =>
                              \E r \in RoomCells :
                                  t[1] = LadderX(r[1], r[2], w) /\ t[2] \in LadderYs(r[2])

\* A level with a coloured one-way-up ladder, a one-way-down ladder and a
\* ladder without a colour.
C31_Witness ==
    /\ pc = "compiled"
    /\ \E t \in DOMAIN tiles : \E w \in Layers1 :
           tiles[t].ladders[w] /\ tiles[t].ladderColors[w] = 2 /\ tiles[t].upward
    /\ \E t \in DOMAIN tiles : \E w \in Layers1 :
           tiles[t].ladders[w] /\ tiles[t].downward
    /\ \E t \in DOMAIN tiles : \E w \in Layers1 :
           tiles[t].ladders[w] /\ tiles[t].ladderColors[w] = 0

(***************************************************************************)
(* The switch of a room.                                                   *)
(***************************************************************************)
ZEdge(rms, roomX, roomY, w) == rms[<<roomX, roomY, 0, w>>].passageZ # passageWall

\* The graph a walk writes gets a z-edge in room (x, y) of layer w exactly by
\* an accepted z-transition of that walk in that room and layer.
ZEdgeByTransition ==
    [][StepAccepted =>
          \A r \in RoomCells : \A w \in Layers1 :
              ZEdge(work', r[1], r[2], w) <=>
                  \/ ZEdge(work, r[1], r[2], w)
                  \/ /\ lastStep'.kind = "z"
                     /\ lastStep'.from[1] = r[1]
                     /\ lastStep'.from[2] = r[2]
                     /\ lastStep'.from[4] = w]_vars

\* The switch tiles of a compiled level are those of the z-edges of its graph.
SwitchIffZEdge ==
    pc = "compiled" =>
        /\ \A r \in RoomCells : \A w \in Layers1 :
               tiles[<<r[1] * roomXGridCount + 4 + w, r[2] * roomYGridCount + 1>>].switches[w]
                   <=> ZEdge(ret[1], r[1], r[2], w)
        /\ \A t \in DOMAIN tiles : \A w \in Layers1 :
               tiles[t].switches[w] =>
                   \E r \in RoomCells :
                       /\ t = <<r[1] * roomXGridCount + 4 + w, r[2] * roomYGridCount + 1>>
                       /\ ZEdge(ret[1], r[1], r[2], w)

\* C32: a switch tile for w-layer w is compiled in a room iff the graph has a
\* z-edge in that room and layer (its z-passage at z-layer 0 is not Wall),
\* which a walk's graph gets exactly by an accepted z-transition in that room
\* and layer; a room without a z-edge gets no switch, and no switch tile lies
\* outside the rooms with a z-edge.
C32_Switches == ZEdgeByTransition /\ []SwitchIffZEdge

\* A level with two w-layers: a room with a switch in layer 1 and none in
\* layer 0, and a room without a switch.
C32_Witness ==
    /\ pc = "compiled"
    /\ depth1 = 2
    /\ \E r \in RoomCells :
           /\ ZEdge(ret[1], r[1], r[2], 1)
           /\ ~ZEdge(ret[1], r[1], r[2], 0)
           /\ tiles[<<SwitchX(r[1], 1), FloorY(r[2])>>].switches[1]
           /\ ~tiles[<<SwitchX(r[1], 0), FloorY(r[2])>>].switches[0]
    /\ \E r \in RoomCells : \A w \in Layers1 : ~ZEdge(ret[1], r[1], r[2], w)

(***************************************************************************)
(* Routes through the room graph that respect the one-way passages.        *)
(***************************************************************************)
\* A route may go from room a to the neighbouring room b: an x-, z- or
\* w-passage that is not Wall is crossed both ways, a y-passage that is
\* Passable both ways, OneWayForward only with increasing y, OneWayBackward
\* only with decreasing y.
CanGo(rms, a, b) ==
    \/ (b = <<a[1] + 1, a[2], a[3], a[4]>> /\ rms[a].passageX # passageWall)
    \/ (a = <<b[1] + 1, b[2], b[3], b[4]>> /\ rms[b].passageX # passageWall)
    \/ (b = <<a[1], a[2] + 1, a[3], a[4]>>
           /\ rms[a].passageY \in {passagePassable, passageOneWayForward})
    \/ (a = <<b[1], b[2] + 1, b[3], b[4]>>
           /\ rms[b].passageY \in {passagePassable, passageOneWayBackward})
    \/ (b = <<a[1], a[2], a[3] + 1, a[4]>> /\ rms[a].passageZ # passageWall)
    \/ (a = <<b[1], b[2], b[3] + 1, b[4]>> /\ rms[b].passageZ # passageWall)
    \/ (b = <<a[1], a[2], a[3], a[4] + 1>> /\ rms[a].passageW # passageWall)
    \/ (a = <<b[1], b[2], b[3], b[4] + 1>> /\ rms[b].passageW # passageWall)

\* More steps than any route has: there is no route.
NoRoute(rms) == Cardinality(DOMAIN rms) + 1

\* The number of steps of a shortest route from a room of S to room target,
\* S being the rooms at most n steps from the origin.
RECURSIVE RouteLength(_, _, _, _)
RouteLength(rms, S, target, n) ==
    IF target \in S THEN n
    ELSE LET S2 == S \cup {b \in DOMAIN rms : \E a \in S : CanGo(rms, a, b)}
         IN  IF S2 = S THEN NoRoute(rms) ELSE RouteLength(rms, S2, target, n + 1)

ShortestRoute(rms) == RouteLength(rms, {startCoord}, goalCoord, 0)

\* C33: no inserted branch is a shortcut.  On the level of BranchSpec the main
\* path has Len(BranchMainPath) steps: in every graph generateRooms returns,
\* the shortest route from the start room to the goal room that respects the
\* one-way directions has at least that many steps.
C33_NoShortcut ==
    (pc = "returned" /\ ret # <<>>)
        => ShortestRoute(ret[1]) >= Len(BranchMainPath)

\* The Field is idle: it exists and no animation is in progress.
Idle == fieldMade /\ dx = 0 /\ dy = 0

\* C34: whenever the Field is idle, after any ticks with any movement and
\* toggle intents from the tile (1,1) and z-layer 0, the agent's tile lies
\* inside the tile grid, canBeInTile holds for it under the active layers and
\* canStandOnTile holds for the tile directly below it: the agent is never
\* inside a solid wall and never unsupported, also right after a toggle.
C34_StandsSupported ==
    Idle =>
        /\ InGrid(tiles, playerX, playerY)
        /\ canBeInTile(tiles, playerX, playerY, currentDepth, currentW)
        /\ canStandOnTile(tiles, playerX, playerY - 1, currentDepth, currentW)

\* The agent is idle right after a tick that toggled the z-layer to 1 on a
\* switch tile other than the starting tile, on a level with coloured walls.
C34_Witness ==
    /\ AtRest
    /\ keys.space
    /\ tiles[<<playerX, playerY>>].switches[currentW]
    /\ currentDepth = 1
    /\ <<playerX, playerY>> # <<1, 1>>
    /\ \E c \in DOMAIN tiles : tiles[c].wallColors[currentW] = 1

\* A route leads from the start room to the goal room.
RouteExists(rms) == ShortestRoute(rms) # NoRoute(rms)

\* A branch that returns to generateRooms, adopted or not, leaves every step
\* a route could take before possible.
RoutesKept ==
    [][(pc = "path" /\ ~mainPath /\ pc' = "branches") =>
          \A a \in Coords, b \in Coords : CanGo(rooms, a, b) => CanGo(rooms', a, b)]_vars

\* In generateRooms' graph from the main path on, and in the graph it returns,
\* the goal room is reachable from the start room.
GoalReachable ==
    /\ pc \in {"branches", "path"} /\ rooms[goalCoord].pathCount # 0 => RouteExists(rooms)
    /\ Returned => RouteExists(ret[1])

\* C35: in every room graph generateRooms returns the goal room is reachable
\* from the start room by a route that crosses OneWayForward passages only
\* with increasing y and OneWayBackward passages only with decreasing y, and
\* no branch insertion blocks a route that existed.
C35_GoalReachable == RoutesKept /\ []GoalReachable

\* A returned graph with one-way passages of both directions into which a
\* branch ending in the start room was inserted.
C35_Witness ==
    /\ Returned
    /\ ret[1][startCoord].pathCount # 1
    /\ \E c \in Coords : ret[1][c].passageY = passageOneWayForward
    /\ \E c \in Coords : ret[1][c].passageY = passageOneWayBackward

(***************************************************************************)
(* Walks over the tile grid between neighbouring rooms.                    *)
(***************************************************************************)
\* The tiles setTilesForRoom writes for the room <<roomX, roomY>>.
Block(cell) ==
    {t \in TileCoords :
        /\ t[1] \in (cell[1] * roomXGridCount + 1)..((cell[1] + 1) * roomXGridCount)
        /\ t[2] \in (cell[2] * roomYGridCount + 1)..((cell[2] + 1) * roomYGridCount)}

\* The floor of the room: the tiles of its lowest row left of its wall columns.
Floor(cell) ==
    {t \in Block(cell) : t[2] = FloorY(cell[2]) /\ t[1] < WallX(cell[1])}

\* The moves Field.Update asks passable about: one tile in x, in y or in both.
Moves == {m \in {-1, 0, 1} \X {-1, 0, 1} : m # <<0, 0>>}

\* The tiles of region the agent reaches by moves that passable accepts under
\* the layers z and w, never leaving region: seen are the tiles reached so
\* far, front the ones among them whose moves have not been tried yet.
RECURSIVE Walk(_, _, _, _, _, _)
Walk(tl, region, seen, front, z, w) ==
    LET new == {t \in UNION {{<<s[1] + m[1], s[2] + m[2]>> : m \in Moves} \cap region
                                : s \in front} :
                   /\ t \notin seen
                   /\ \E s \in front :
                         /\ abs(t[1] - s[1]) <= 1
                         /\ abs(t[2] - s[2]) <= 1
                         /\ passable(tl, t[1], t[2], s[2], z, w)}
    IN  IF new = {} THEN seen ELSE Walk(tl, region, seen \cup new, new, z, w)

\* Accepted moves inside the blocks of the rooms a and b take the agent from
\* the floor of a to the floor of b.
Crosses(tl, a, b, z, w) ==
    Floor(b) \cap Walk(tl, Block(a) \cup Block(b), Floor(a), Floor(a), z, w) # {}

\* Ordered pairs of x- or y-adjacent rooms.
AdjacentCells ==
    {p \in RoomCells \X RoomCells :
        \/ (p[1][2] = p[2][2] /\ abs(p[1][1] - p[2][1]) = 1)
        \/ (p[1][1] = p[2][1] /\ abs(p[1][2] - p[2][2]) = 1)}

\* Accepted moves anywhere in the grid take the agent from the floor of a to
\* the floor of b.
Reaches(tl, a, b, z, w) ==
    Floor(b) \cap Walk(tl, TileCoords, Floor(a), Floor(a), z, w) # {}

\* C36 as stated: some sequence of accepted moves with the layers held fixed
\* takes the agent from the floor of the one room to the floor of the other
\* iff the passage between them permits travel in that direction.
C36_AnyWalk ==
    pc = "compiled" =>
        \A p \in AdjacentCells, z \in Layers0, w \in Layers1 :
            Reaches(tiles, p[1], p[2], z, w)
                <=> CanGo(ret[1], <<p[1][1], p[1][2], z, w>>, <<p[2][1], p[2][2], z, w>>)

\* C36: the compiled tile grid refines the room graph.  For every ordered
\* pair of x- or y-adjacent rooms and all layers (z, w), accepted moves with
\* the layers held fixed take the agent from the floor of the one room to the
\* floor of the other across their common border (inside the tiles of the two
\* rooms) iff the passage between them in layer (z, w) permits travel in that
\* direction: Passable both ways, OneWayForward only upward, OneWayBackward
\* only downward, Wall neither.
C36_TilesRefineGraph ==
    pc = "compiled" =>
        \A p \in AdjacentCells, z \in Layers0, w \in Layers1 :
            Crosses(tiles, p[1], p[2], z, w)
                <=> CanGo(ret[1], <<p[1][1], p[1][2], z, w>>, <<p[2][1], p[2][2], z, w>>)


\* A compiled level where the claim's four cases occur: a Wall and a Passable
\* x-passage, a one-way ladder crossed upward but not downward, and a ladder
\* that only one z-layer can use.
C36_Witness ==
    /\ pc = "compiled"
    /\ \E p \in AdjacentCells, z \in Layers0, w \in Layers1 :
          /\ p[1][2] < p[2][2]
          /\ ret[1][<<p[1][1], p[1][2], z, w>>].passageY = passageOneWayForward
          /\ Crosses(tiles, p[1], p[2], z, w)
          /\ ~Crosses(tiles, p[2], p[1], z, w)
          /\ ~Crosses(tiles, p[1], p[2], 1 - z, w)
    /\ \E p \in AdjacentCells, z \in Layers0, w \in Layers1 :
          /\ p[1][1] < p[2][1]
          /\ Crosses(tiles, p[1], p[2], z, w)
          /\ ~Crosses(tiles, p[1], p[2], 1 - z, w)


\* The accepted steps of the running (or last) call of tryAddPathWithOneWay:
\* the counter starts at the pathCount of the room the call starts in.
StepsOfCall == count - startCount

\* Every iteration of the path loop either accepts a step or ends the call,
\* and an accepted step that does not end the call by reaching an isGoal
\* room that was visited before enters a room whose pathCount was zero.
PathLoopStep ==
    [][pc = "path" =>
          /\ count' = count + 1 \/ pc' # "path"
          /\ count' \in {count, count + 1}
          /\ StepAccepted =>
                /\ lastStep'.toCount # 0 => lastStep'.goalReached
                /\ lastStep'.goalReached => pc' # "path"
                /\ lastStep'.toCount = work[lastStep'.to].pathCount
                /\ work'[lastStep'.to].pathCount # 0]_vars

\* No call accepts more steps than there are rooms.
StepsBounded == StepsOfCall \in 0..(width * height * depth0 * depth1)

\* C37: every call of tryAddPathWithOneWay ends after at most
\* width*height*depth0*depth1 accepted steps: every iteration of its loop
\* (one bounded round of sampling) accepts a step or gives the attempt up,
\* and every accepted step except the final goal-reaching one enters a room
\* whose pathCount was zero.
C37_CallTerminates == PathLoopStep /\ []StepsBounded

\* A branch has ended with a step into a room visited before, and a main path
\* can be as long as the rooms allow.
C37_Witness ==
    /\ pc = "branches"
    /\ ~mainPath
    /\ lastStep.goalReached
    /\ lastStep.toCount # 0
    /\ StepsOfCall >= 2
    /\ Cardinality(VisitedRooms(rooms)) >= width * height * depth0 * depth1 - 1


\* C38: under fair scheduling of the tick loop and of the goroutine, once
\* NewField has returned in the goroutine the scene eventually holds the
\* generated Field, received by a tick that goes on to call Field.Update on
\* it, and a goroutine waiting in its send is eventually matched by the
\* receive of a tick's select.
C38_HandoverHappens ==
    /\ gpc = "timer" ~> (field = "F" /\ tickLog.received = "F" /\ tickLog.updated)
    /\ gpc = "send" ~> (gpc = "close" /\ tickLog.received = "F")

\* A tick has received the Field of the second goroutine the scene started
\* and has called Field.Update on it.
C38_Witness ==
    /\ field = "F"
    /\ tickLog.received = "F"
    /\ tickLog.updated
    /\ started = 2

====
